---- MODULE Spec2Model ----
(***************************************************************************)
(* Material nesting / cutting-stock engine of Material_Takeoff.            *)
(*                                                                         *)
(* Two implementations live in the repository and both are modelled:       *)
(*   - the comprehensive service, app/services/nesting_service_clean.py    *)
(*   - the simple service, app/services/nesting_service.py (the one the    *)
(*     API routers import); its definitions carry the prefix Simple.       *)
(*                                                                         *)
(* Units.  Lengths, widths: whole inches.  Kerf: eighths of an inch, so    *)
(* the packing works in eighths (cut * 8 + kerf).  Thickness: eighths of   *)
(* an inch.  Money, percentages: exact rationals [n, d] with d > 0, in     *)
(* dollars and percent.  Shape keys: sequences of one-character strings.   *)
(***************************************************************************)
EXTENDS Integers, Sequences, FiniteSets, TLC

VARIABLES
    svc,              \* comprehensive NestingService instance attributes
    simple_svc,       \* simple NestingService instance attributes
    pc,               \* position of the caller: idle / done / repeated / classified / packed / nested / concurrent / responded
    call,             \* the call in progress or just returned
    material_groups,  \* groups built by the last comprehensive run
    result,           \* NestingResult of the last run
    first_result,     \* NestingResult of the run before a repeated run
    threads           \* local variables of the calls running concurrently

vars == <<svc, simple_svc, pc, call, material_groups, result, first_result, threads>>

----------------------------------------------------------------------------
(* Bounds of the model *)

MaxEntries == 2
MaxFrags == 2

----------------------------------------------------------------------------
(* Exact rationals *)

RECURSIVE GCD(_, _)
GCD(a, b) == IF b = 0 THEN a ELSE GCD(b, a % b)

Abs(x) == IF x < 0 THEN -x ELSE x

Rat(n, d) ==
    LET s == IF d < 0 THEN -1 ELSE 1
        g == GCD(Abs(n), Abs(d))
    IN  [n |-> (s * n) \div g, d |-> (s * d) \div g]

RInt(k) == [n |-> k, d |-> 1]

RMul(a, b) ==
    LET g1 == GCD(Abs(a.n), b.d)
        g2 == GCD(Abs(b.n), a.d)
    IN  Rat((a.n \div g1) * (b.n \div g2), (a.d \div g2) * (b.d \div g1))

RAdd(a, b) ==
    LET g == GCD(a.d, b.d)
    IN  Rat(a.n * (b.d \div g) + b.n * (a.d \div g), (a.d \div g) * b.d)

RNeg(a) == [n |-> -a.n, d |-> a.d]

RSub(a, b) == RAdd(a, RNeg(b))

RDiv(a, b) == RMul(a, Rat(b.d, b.n))

\* n1/d1 < n2/d2 for positive denominators, by continued fractions
\* (no cross product, so no overflow)
RECURSIVE FracLess(_, _, _, _)
FracLess(n1, d1, n2, d2) ==
    LET q1 == n1 \div d1
        q2 == n2 \div d2
        r1 == n1 - q1 * d1
        r2 == n2 - q2 * d2
    IN  IF q1 # q2 THEN q1 < q2
        ELSE IF r2 = 0 THEN FALSE
        ELSE IF r1 = 0 THEN TRUE
        ELSE FracLess(d2, r2, d1, r1)

RLt(a, b) == FracLess(a.n, a.d, b.n, b.d)

RLe(a, b) == ~RLt(b, a)

RECURSIVE SumSeq(_)
SumSeq(s) == IF s = <<>> THEN 0 ELSE Head(s) + SumSeq(Tail(s))

RECURSIVE RSumSeq(_)
RSumSeq(s) == IF s = <<>> THEN RInt(0) ELSE RAdd(Head(s), RSumSeq(Tail(s)))

RECURSIVE Flatten(_)
Flatten(ss) == IF ss = <<>> THEN <<>> ELSE Head(ss) \o Flatten(Tail(ss))

Range(s) == {s[i] : i \in 1..Len(s)}

----------------------------------------------------------------------------
(* Strings as sequences of characters *)

UpperChar(c) ==
    CASE c = "p" -> "P" [] c = "l" -> "L" [] c = "w" -> "W"
      [] c = "x" -> "X" [] c = "n" -> "N" [] c = "u" -> "U"
      [] c = "t" -> "T" [] OTHER -> c

\* str.upper()
Upper(s) == [i \in 1..Len(s) |-> UpperChar(s[i])]

\* str.strip()
RECURSIVE LStrip(_)
LStrip(s) == IF s # <<>> /\ Head(s) = " " THEN LStrip(Tail(s)) ELSE s

RECURSIVE RStrip(_)
RStrip(s) ==
    IF s # <<>> /\ s[Len(s)] = " " THEN RStrip(SubSeq(s, 1, Len(s) - 1)) ELSE s

Strip(s) == RStrip(LStrip(s))

\* pattern in s
Contains(pattern, s) ==
    \E i \in 1..(Len(s) - Len(pattern) + 1) :
        SubSeq(s, i, i + Len(pattern) - 1) = pattern

\* s.startswith(prefix)
StartsWith(s, prefix) ==
    Len(prefix) <= Len(s) /\ SubSeq(s, 1, Len(prefix)) = prefix

AnyContains(patterns, s) == \E i \in 1..Len(patterns) : Contains(patterns[i], s)

S_PIPE == <<"P", "I", "P", "E">>
S_TUBE == <<"T", "U", "B", "E">>
S_ANGLE == <<"A", "N", "G", "L", "E">>
S_CHANNEL == <<"C", "H", "A", "N", "N", "E", "L">>
S_BEAM == <<"B", "E", "A", "M">>
S_ROD == <<"R", "O", "D">>
S_BAR == <<"B", "A", "R">>
S_PLATE == <<"P", "L", "A", "T", "E">>
S_SHEET == <<"S", "H", "E", "E", "T">>
S_PL == <<"P", "L">>
S_GRATING == <<"G", "R", "A", "T", "I", "N", "G">>
S_GRATE == <<"G", "R", "A", "T", "E">>
S_FRP == <<"F", "R", "P">>
S_BOLT == <<"B", "O", "L", "T">>
S_NUT == <<"N", "U", "T">>
S_WASHER == <<"W", "A", "S", "H", "E", "R">>
S_SCREW == <<"S", "C", "R", "E", "W">>
S_ANCHOR == <<"A", "N", "C", "H", "O", "R">>
S_CLIP == <<"C", "L", "I", "P">>
S_ASSEMBLY == <<"A", "S", "S", "E", "M", "B", "L", "Y">>
S_DUCT == <<"D", "U", "C", "T">>
S_19W4 == <<"1", "9", "W", "4">>
S_15W4 == <<"1", "5", "W", "4">>
S_11W4 == <<"1", "1", "W", "4">>
S_FRP_M == <<"F", "R", "P", "-", "M", "-">>
S_W == <<"W">>
S_S == <<"S">>
S_C == <<"C">>
S_L == <<"L">>
S_WT == <<"W", "T">>
S_MC == <<"M", "C">>
S_HP == <<"H", "P">>
S_QUOTE == <<"\"">>
S_W12X26 == <<"W", "1", "2", "X", "2", "6">>
S_PIPE2 == <<"P", "I", "P", "E", "2">>
S_PL14 == <<"P", "L", "1", "/", "4">>
S_M12 == <<"M", "1", "2">>

----------------------------------------------------------------------------
(* Values shared by both services *)

\* Python's None
None == [none |-> TRUE]

\* @dataclass MaterialPurchase; the simple service's dataclass has fewer
\* fields, the missing ones keep the defaults of the comprehensive one
MaterialPurchase(shape_key, size_description, pieces_needed, total_cost, waste_percentage, material_category, waste_cost, stock_length, cuts_per_stick, cuts_from_this_size, bulk_discount_applied, utilization_percentage, optimization_notes) ==
    [shape_key |-> shape_key,
     size_description |-> size_description,
     pieces_needed |-> pieces_needed,
     total_cost |-> total_cost,
     waste_percentage |-> waste_percentage,
     material_category |-> material_category,
     waste_cost |-> waste_cost,
     stock_length |-> stock_length,
     cuts_per_stick |-> cuts_per_stick,
     cuts_from_this_size |-> cuts_from_this_size,
     bulk_discount_applied |-> bulk_discount_applied,
     utilization_percentage |-> utilization_percentage,
     optimization_notes |-> optimization_notes]

\* @dataclass NestingResult
NestingResult(material_purchases, total_waste_percentage, total_cost, cost_savings, optimization_summary) ==
    [material_purchases |-> material_purchases,
     total_waste_percentage |-> total_waste_percentage,
     total_cost |-> total_cost,
     cost_savings |-> cost_savings,
     optimization_summary |-> optimization_summary]

\* sorted(cuts, reverse=True): stable, equal lengths keep their order
RECURSIVE InsertDesc(_, _)
InsertDesc(x, s) ==
    IF s = <<>> THEN <<x>>
    ELSE IF x > Head(s) THEN <<x>> \o s
    ELSE <<Head(s)>> \o InsertDesc(x, Tail(s))

RECURSIVE SortedDesc(_)
SortedDesc(cuts) ==
    IF cuts = <<>> THEN <<>>
    ELSE InsertDesc(cuts[Len(cuts)], SortedDesc(SubSeq(cuts, 1, Len(cuts) - 1)))

\* for _ in range(qty): cuts.append(length)
RECURSIVE Repeat(_, _)
Repeat(x, k) == IF k <= 0 THEN <<>> ELSE <<x>> \o Repeat(x, k - 1)

----------------------------------------------------------------------------
(* Comprehensive service: construction *)

standard_stock_lengths == <<720, 600, 480, 360, 240, 120>>

standard_plate_sizes ==
    << <<48, 96>>, <<48, 120>>, <<60, 120>>, <<60, 96>>, <<48, 144>>,
       <<60, 144>>, <<96, 96>>, <<96, 240>>, <<120, 480>>, <<96, 480>>,
       <<72, 144>> >>

\* dict in insertion order: category -> patterns
material_categories ==
    << [category |-> "linear",
        patterns |-> <<S_PIPE, S_TUBE, S_ANGLE, S_CHANNEL, S_BEAM, S_ROD, S_BAR>>],
       [category |-> "sheet", patterns |-> <<S_PLATE, S_SHEET, S_PL>>],
       [category |-> "grating", patterns |-> <<S_GRATING, S_GRATE>>],
       [category |-> "frp", patterns |-> <<S_FRP>>],
       [category |-> "hardware",
        patterns |-> <<S_BOLT, S_NUT, S_WASHER, S_SCREW, S_ANCHOR, S_CLIP>>],
       [category |-> "structural",
        patterns |-> <<S_W, S_S, S_C, S_L, S_WT, S_MC, S_HP>>] >>

\* kerf in eighths of an inch, waste_target in percent, discounts in percent
optimization_params ==
    [linear |-> [kerf |-> 1, waste_target |-> 5],
     sheet |-> [kerf |-> 1],
     grating |-> [waste_target |-> 8],
     frp |-> [waste_target |-> 10],
     hardware |-> [bulk_thresholds |-> <<25, 50, 100, 250>>,
                   bulk_discounts |-> <<2, 5, 10, 15>>],
     structural |-> [kerf |-> 2, waste_target |-> 6]]

\* NestingService.__init__
NestingServiceInit ==
    [standard_stock_lengths |-> standard_stock_lengths,
     standard_plate_sizes |-> standard_plate_sizes,
     material_categories |-> material_categories,
     optimization_params |-> optimization_params]

----------------------------------------------------------------------------
(* Comprehensive service: classification and grouping *)

RECURSIVE FirstPatternCategory(_, _)
FirstPatternCategory(cats, shape_upper) ==
    IF cats = <<>> THEN ""
    ELSE IF AnyContains(Head(cats).patterns, shape_upper) THEN Head(cats).category
    ELSE FirstPatternCategory(Tail(cats), shape_upper)

\* _determine_material_category (the entry argument is not read)
DetermineMaterialCategory(shape_key) ==
    LET shape_upper == Upper(shape_key)
        by_pattern == FirstPatternCategory(svc.material_categories, shape_upper)
    IN  IF by_pattern # "" THEN by_pattern
        ELSE IF StartsWith(shape_upper, S_PL) \/ Contains(S_DUCT, shape_upper)
             THEN "sheet"
        ELSE IF AnyContains(<<S_19W4, S_15W4, S_11W4>>, shape_upper) THEN "grating"
        ELSE IF Contains(S_FRP_M, shape_upper) THEN "frp"
        ELSE IF AnyContains(<<S_ASSEMBLY, S_CLIP, S_ANCHOR>>, shape_upper)
             THEN "hardware"
        ELSE IF \E p \in {S_W, S_S, S_C, S_L, S_WT, S_MC, S_HP} :
                    StartsWith(shape_upper, p)
             THEN "structural"
        ELSE IF AnyContains(<<S_PIPE, S_TUBE, S_QUOTE>>, shape_upper) THEN "linear"
        ELSE "general"

\* variant: the groups of the previous call are kept instead of a fresh dict
StaleGroups == material_groups

\* material_groups = {'linear': {}, ...}: dicts in insertion order
EmptyGroups ==
    [linear |-> <<>>, sheet |-> <<>>, grating |-> <<>>, frp |-> <<>>,
     hardware |-> <<>>, structural |-> <<>>, general |-> <<>>]

CategoryOrder ==
    <<"linear", "sheet", "grating", "frp", "hardware", "structural", "general">>

\* variant: every spec starts a list of its own
AppendToGroupNoMerge(materials, shape_key, item) ==
    Append(materials, [shape_key |-> shape_key, specs |-> <<item>>])

\* materials[shape_key].append(spec), creating the list on first use
AppendToGroup(materials, shape_key, item) ==
    IF \E i \in 1..Len(materials) : materials[i].shape_key = shape_key
    THEN [i \in 1..Len(materials) |->
            IF materials[i].shape_key = shape_key
            THEN [materials[i] EXCEPT !.specs = Append(@, item)]
            ELSE materials[i]]
    ELSE Append(materials, [shape_key |-> shape_key, specs |-> <<item>>])

\* _categorize_and_process_entry
CategorizeAndProcessEntry(entry, groups) ==
    LET shape_key == Strip(Upper(entry.shape_key))
        qty == entry.qty
        category == DetermineMaterialCategory(shape_key)
        spec == [shape_key |-> shape_key,
                 category |-> category,
                 length |-> entry.length_ft * 12 + entry.length_in,
                 width |-> entry.width_in,
                 thickness |-> entry.thickness_in,
                 quantity |-> qty]
    IN  IF shape_key = <<>> THEN groups
        ELSE IF qty <= 0 THEN groups
        ELSE [groups EXCEPT ![category] = AppendToGroup(@, shape_key, spec)]

RECURSIVE CategorizeAll(_, _)
CategorizeAll(entries, groups) ==
    IF entries = <<>> THEN groups
    ELSE CategorizeAll(Tail(entries), CategorizeAndProcessEntry(Head(entries), groups))

----------------------------------------------------------------------------
(* Comprehensive service: linear and structural stock *)

\* variant: a cut goes on a stick only if space is left over after it
BinPackStepStrict(st, cut_length, stock_length, kerf) ==
    LET required_length == cut_length * 8 + kerf
        fits == {i \in 1..Len(st.sticks) : st.sticks[i] > required_length}
    IN  IF ~st.ok THEN st
        ELSE IF fits # {}
        THEN LET i == CHOOSE j \in fits : \A k \in fits : j <= k
             IN  [st EXCEPT !.sticks[i] = @ - required_length,
                            !.stick_cuts[i] = Append(@, cut_length)]
        ELSE IF stock_length * 8 < required_length
        THEN [st EXCEPT !.ok = FALSE]
        ELSE [st EXCEPT !.sticks = Append(@, stock_length * 8 - required_length),
                        !.stick_cuts = Append(@, <<cut_length>>)]

\* variant: a cut goes on the last open stick that has room for it
BinPackStepLastFit(st, cut_length, stock_length, kerf) ==
    LET required_length == cut_length * 8 + kerf
        fits == {i \in 1..Len(st.sticks) : st.sticks[i] >= required_length}
    IN  IF ~st.ok THEN st
        ELSE IF fits # {}
        THEN LET i == CHOOSE j \in fits : \A k \in fits : j >= k
             IN  [st EXCEPT !.sticks[i] = @ - required_length,
                            !.stick_cuts[i] = Append(@, cut_length)]
        ELSE IF stock_length * 8 < required_length
        THEN [st EXCEPT !.ok = FALSE]
        ELSE [st EXCEPT !.sticks = Append(@, stock_length * 8 - required_length),
                        !.stick_cuts = Append(@, <<cut_length>>)]

\* one iteration of the loop over cuts in _bin_pack_linear; sticks holds the
\* remaining space of each stick in eighths of an inch
BinPackStep(st, cut_length, stock_length, kerf) ==
    LET required_length == cut_length * 8 + kerf
        fits == {i \in 1..Len(st.sticks) : st.sticks[i] >= required_length}
    IN  IF ~st.ok THEN st
        ELSE IF fits # {}
        THEN LET i == CHOOSE j \in fits : \A k \in fits : j <= k
             IN  [st EXCEPT !.sticks[i] = @ - required_length,
                            !.stick_cuts[i] = Append(@, cut_length)]
        ELSE IF stock_length * 8 < required_length
        THEN [st EXCEPT !.ok = FALSE]
        ELSE [st EXCEPT !.sticks = Append(@, stock_length * 8 - required_length),
                        !.stick_cuts = Append(@, <<cut_length>>)]

RECURSIVE BinPackLoop(_, _, _, _)
BinPackLoop(st, cuts, stock_length, kerf) ==
    IF cuts = <<>> THEN st
    ELSE BinPackLoop(BinPackStep(st, Head(cuts), stock_length, kerf),
                     Tail(cuts), stock_length, kerf)

\* _bin_pack_linear; total_waste is kept in eighths of an inch
BinPackLinear(cuts, stock_length, kerf) ==
    LET st == BinPackLoop([sticks |-> <<>>, stick_cuts |-> <<>>, ok |-> TRUE],
                          cuts, stock_length, kerf)
        num_sticks == Len(st.sticks)
        total_used == SumSeq(Flatten(st.stick_cuts)) * 8
        total_kerf == Len(Flatten(st.stick_cuts)) * kerf
        total_available == num_sticks * stock_length * 8
        total_waste == total_available - total_used - total_kerf
    IN  IF ~st.ok THEN None
        ELSE [sticks_needed |-> num_sticks,
              stock_length |-> stock_length,
              efficiency |-> IF total_available > 0
                             THEN RMul(Rat(total_used + total_kerf, total_available),
                                       RInt(100))
                             ELSE RInt(0),
              waste_percentage |-> IF total_available > 0
                                   THEN RMul(Rat(total_waste, total_available),
                                             RInt(100))
                                   ELSE RInt(0),
              total_waste |-> total_waste,
              cuts_per_stick |-> st.stick_cuts]

\* variant: a later candidate of equal efficiency replaces the best one
BetterResultOrEqual(best, r) ==
    IF r # None /\ RLe(best.efficiency, r.efficiency)
    THEN [result |-> r, efficiency |-> r.efficiency]
    ELSE best

\* "if result and result['efficiency'] > best_efficiency" in the loop of
\* _optimize_linear_cuts
BetterResult(best, r) ==
    IF r # None /\ RLt(best.efficiency, r.efficiency)
    THEN [result |-> r, efficiency |-> r.efficiency]
    ELSE best

\* the loop over self.standard_stock_lengths in _optimize_linear_cuts:
\* best is [result, efficiency]
RECURSIVE BestStockLoop(_, _, _, _)
BestStockLoop(best, stock_lengths, sorted_cuts, kerf) ==
    IF stock_lengths = <<>> THEN best
    ELSE BestStockLoop(BetterResult(best,
                                    BinPackLinear(sorted_cuts, Head(stock_lengths), kerf)),
                       Tail(stock_lengths), sorted_cuts, kerf)

\* variant: only the largest stock length is tried
BestLinearResultLargestOnly(cuts, kerf) ==
    BestStockLoop([result |-> None, efficiency |-> RInt(0)],
                  <<svc.standard_stock_lengths[1]>>, SortedDesc(cuts), kerf).result

\* sorted_cuts and the search for best_result in _optimize_linear_cuts
BestLinearResult(cuts, kerf) ==
    BestStockLoop([result |-> None, efficiency |-> RInt(0)],
                  svc.standard_stock_lengths, SortedDesc(cuts), kerf).result

\* _estimate_linear_cost, dollars per stick
EstimateLinearCost(shape_key, stock_length) ==
    LET up == Upper(shape_key)
        base_cost_per_foot ==
            IF AnyContains(<<S_PIPE, S_TUBE>>, up) THEN 12
            ELSE IF AnyContains(<<S_BEAM, S_W, S_S>>, up) THEN 15
            ELSE 10
    IN  RMul(Rat(stock_length, 12), RInt(base_cost_per_foot))

\* variant: the waste fraction of all sticks is charged on one stick only
LinearPurchaseWasteOfOneStick(shape_key, cuts, category, best_result) ==
    LET cost_per_stick == EstimateLinearCost(shape_key, best_result.stock_length)
        total_cost == RMul(RInt(best_result.sticks_needed), cost_per_stick)
        waste_cost == RMul(RDiv(best_result.waste_percentage, RInt(100)), cost_per_stick)
    IN  IF best_result = None THEN None
        ELSE MaterialPurchase(shape_key,
                              <<"sticks", Rat(best_result.stock_length, 12)>>,
                              best_result.sticks_needed,
                              total_cost,
                              best_result.waste_percentage,
                              category,
                              waste_cost,
                              best_result.stock_length,
                              best_result.cuts_per_stick,
                              cuts,
                              FALSE,
                              best_result.efficiency,
                              <<"Optimized using stock lengths">>)

\* the tail of _optimize_linear_cuts, from the chosen best_result on
LinearPurchase(shape_key, cuts, category, best_result) ==
    LET cost_per_stick == EstimateLinearCost(shape_key, best_result.stock_length)
        total_cost == RMul(RInt(best_result.sticks_needed), cost_per_stick)
        waste_cost == RMul(Rat(best_result.total_waste, best_result.stock_length * 8),
                           cost_per_stick)
    IN  IF best_result = None THEN None
        ELSE MaterialPurchase(shape_key,
                              <<"sticks", Rat(best_result.stock_length, 12)>>,
                              best_result.sticks_needed,
                              total_cost,
                              best_result.waste_percentage,
                              category,
                              waste_cost,
                              best_result.stock_length,
                              best_result.cuts_per_stick,
                              cuts,
                              FALSE,
                              best_result.efficiency,
                              <<"Optimized using stock lengths">>)

\* _optimize_linear_cuts
OptimizeLinearCuts(shape_key, cuts, category) ==
    IF cuts = <<>> THEN None
    ELSE LinearPurchase(shape_key, cuts, category,
                        BestLinearResult(cuts, svc.optimization_params[category].kerf))

\* variant: one cut per spec, whatever its quantity
RECURSIVE CutsOfSpecsOnePerSpec(_)
CutsOfSpecsOnePerSpec(specs) ==
    IF specs = <<>> THEN <<>>
    ELSE <<Head(specs).length>> \o CutsOfSpecsOnePerSpec(Tail(specs))

\* cuts of one shape key: spec.quantity copies of spec.length per spec
RECURSIVE CutsOfSpecs(_)
CutsOfSpecs(specs) ==
    IF specs = <<>> THEN <<>>
    ELSE Repeat(Head(specs).length, Head(specs).quantity) \o CutsOfSpecs(Tail(specs))

\* purchases.append(purchase) for every purchase that is not None
RECURSIVE DropNone(_)
DropNone(ps) ==
    IF ps = <<>> THEN <<>>
    ELSE IF Head(ps) = None THEN DropNone(Tail(ps))
    ELSE <<Head(ps)>> \o DropNone(Tail(ps))

\* _optimize_linear_materials
OptimizeLinearMaterials(materials) ==
    DropNone([i \in 1..Len(materials) |->
        OptimizeLinearCuts(materials[i].shape_key, CutsOfSpecs(materials[i].specs),
                           "linear")])

\* _optimize_structural_materials
OptimizeStructuralMaterials(materials) ==
    DropNone([i \in 1..Len(materials) |->
        OptimizeLinearCuts(materials[i].shape_key, CutsOfSpecs(materials[i].specs),
                           "structural")])

----------------------------------------------------------------------------
(* Comprehensive service: sheet and plate *)

\* Python's a // b and math.ceil(a / b) on numbers of either sign
PyFloorDiv(a, b) == IF b > 0 THEN a \div b ELSE (-a) \div (-b)

\* variant: the sheet count is rounded down
PyCeilDivFloor(a, b) == PyFloorDiv(a, b)

PyCeilDiv(a, b) == -PyFloorDiv(-a, b)

\* _estimate_sheet_cost, dollars per sheet; thickness in eighths of an inch
EstimateSheetCost(width, length, thickness) ==
    RMul(Rat(width * length, 144), Rat(20 + thickness, 4))

\* the sheets that pass the fit test of _find_best_sheet_fit, in catalog order
SuitableSizes(piece_width, piece_length) ==
    SelectSeq(svc.standard_plate_sizes,
              LAMBDA sh : \/ (piece_width <= sh[1] /\ piece_length <= sh[2])
                          \/ (piece_width <= sh[2] /\ piece_length <= sh[1]))

\* _find_best_sheet_fit: the stable sort by waste keeps the first sheet of
\* minimal waste
FindBestSheetFit(piece_width, piece_length, category) ==
    LET suitable_sizes == SuitableSizes(piece_width, piece_length)
        waste(i) == suitable_sizes[i][1] * suitable_sizes[i][2]
                        - piece_width * piece_length
        best == CHOOSE i \in 1..Len(suitable_sizes) :
                    \A j \in 1..Len(suitable_sizes) :
                        waste(i) < waste(j) \/ (waste(i) = waste(j) /\ i <= j)
    IN  IF suitable_sizes = <<>> THEN None ELSE suitable_sizes[best]

\* variant: the rotated orientation is never tried
PiecesPerSheetNormalOnly(sheet_width, sheet_length, piece_width, piece_length) ==
    PyFloorDiv(sheet_width, piece_width) * PyFloorDiv(sheet_length, piece_length)

\* pieces_per_sheet of _optimize_single_sheet_size, rotated only when the
\* normal orientation gives 0
PiecesPerSheet(sheet_width, sheet_length, piece_width, piece_length) ==
    LET normal == PyFloorDiv(sheet_width, piece_width)
                      * PyFloorDiv(sheet_length, piece_length)
        rotated == PyFloorDiv(sheet_width, piece_length)
                       * PyFloorDiv(sheet_length, piece_width)
    IN  IF normal = 0 THEN rotated ELSE normal

\* _optimize_single_sheet_size from the chosen best_fit on
SingleSheetResult(piece_spec, total_qty, best_fit) ==
    LET piece_width == piece_spec.width
        piece_length == piece_spec.length
        piece_area == piece_width * piece_length
        sheet_width == best_fit[1]
        sheet_length == best_fit[2]
        sheet_area == sheet_width * sheet_length
        pieces_per_sheet ==
            PiecesPerSheet(sheet_width, sheet_length, piece_width, piece_length)
        sheets_needed == PyCeilDiv(total_qty, pieces_per_sheet)
        used_area == total_qty * piece_area
        total_sheet_area == sheets_needed * sheet_area
        waste_area == total_sheet_area - used_area
        waste_percentage == IF total_sheet_area > 0
                            THEN RMul(Rat(waste_area, total_sheet_area), RInt(100))
                            ELSE RInt(0)
        cost_per_sheet ==
            EstimateSheetCost(sheet_width, sheet_length, piece_spec.thickness)
    IN  IF best_fit = None THEN None
        ELSE IF pieces_per_sheet = 0 THEN None
        ELSE [sheets_needed |-> sheets_needed,
              cost |-> RMul(RInt(sheets_needed), cost_per_sheet),
              waste_percentage |-> waste_percentage,
              sheet_details |-> <<[width |-> sheet_width,
                                   length |-> sheet_length,
                                   pieces_per_sheet |-> pieces_per_sheet,
                                   quantity |-> sheets_needed]>>]

\* _optimize_single_sheet_size
OptimizeSingleSheetSize(specs, category) ==
    IF specs = <<>> THEN None
    ELSE IF specs[1].width = 0 \/ specs[1].length = 0 THEN None
    ELSE SingleSheetResult(specs[1],
                           SumSeq([i \in 1..Len(specs) |-> specs[i].quantity]),
                           FindBestSheetFit(specs[1].width, specs[1].length, category))

\* size_groups of _optimize_sheet_nesting: specs grouped by
\* (width, length, thickness) in order of first appearance
RECURSIVE SizeGroups(_, _)
SizeGroups(specs, groups) ==
    IF specs = <<>> THEN groups
    ELSE LET spec == Head(specs)
             size_key == <<spec.width, spec.length, spec.thickness>>
         IN  SizeGroups(Tail(specs), AppendToGroup(groups, size_key, spec))

\* the totals of _optimize_sheet_nesting over the results of its size groups
SheetNestingPurchase(shape_key, category, size_groups, results) ==
    LET total_cost == RSumSeq([i \in 1..Len(results) |-> results[i].cost])
        total_pieces == SumSeq([i \in 1..Len(results) |-> results[i].sheets_needed])
        weighted_waste ==
            RSumSeq([i \in 1..Len(results) |->
                        RMul(results[i].waste_percentage, results[i].cost)])
        avg_waste_percentage == RDiv(weighted_waste, total_cost)
    IN  IF total_cost = RInt(0) THEN None
        ELSE MaterialPurchase(shape_key,
                              <<"Various sheet sizes">>,
                              total_pieces,
                              total_cost,
                              avg_waste_percentage,
                              category,
                              RMul(total_cost, RDiv(avg_waste_percentage, RInt(100))),
                              0,
                              <<>>,
                              <<>>,
                              FALSE,
                              RInt(0),
                              <<<<"Optimized different piece sizes", Len(size_groups)>>>>)

\* the loop over size_groups in _optimize_sheet_nesting
SheetNestingResults(size_groups, category) ==
    DropNone([i \in 1..Len(size_groups) |->
        OptimizeSingleSheetSize(size_groups[i].specs, category)])

\* _optimize_sheet_nesting
OptimizeSheetNesting(shape_key, specs, category) ==
    LET size_groups == SizeGroups(specs, <<>>)
    IN  IF specs = <<>> THEN None
        ELSE SheetNestingPurchase(shape_key, category, size_groups,
                                  SheetNestingResults(size_groups, category))

\* _optimize_sheet_materials
OptimizeSheetMaterials(materials) ==
    DropNone([i \in 1..Len(materials) |->
        OptimizeSheetNesting(materials[i].shape_key, materials[i].specs, "sheet")])

----------------------------------------------------------------------------
(* Comprehensive service: panels, hardware, general *)

TotalQuantity(specs) == SumSeq([i \in 1..Len(specs) |-> specs[i].quantity])

\* _estimate_panel_cost, dollars per panel
EstimatePanelCost(shape_key, category) ==
    IF category = "grating" THEN 150
    ELSE IF category = "frp" THEN 300
    ELSE 100

\* variant: the default waste target 5.0 is used for every category
OptimizePanelNestingDefaultWaste(shape_key, specs, category) ==
    LET total_qty == TotalQuantity(specs)
        total_cost == RInt(total_qty * EstimatePanelCost(shape_key, category))
    IN  IF specs = <<>> THEN None
        ELSE MaterialPurchase(shape_key, <<"Standard panel sizes">>, total_qty,
                              total_cost, RInt(5), category,
                              RMul(total_cost, Rat(5, 100)), 0, <<>>, <<>>, FALSE,
                              RInt(0), <<<<category, "panels - standard sizes used">>>>)

\* _optimize_panel_nesting
OptimizePanelNesting(shape_key, specs, category) ==
    LET total_qty == TotalQuantity(specs)
        params == svc.optimization_params[category]
        total_cost == RInt(total_qty * EstimatePanelCost(shape_key, category))
        waste_percentage == RInt(params.waste_target)
    IN  IF specs = <<>> THEN None
        ELSE MaterialPurchase(shape_key,
                              <<"Standard panel sizes">>,
                              total_qty,
                              total_cost,
                              waste_percentage,
                              category,
                              RMul(total_cost, RDiv(waste_percentage, RInt(100))),
                              0,
                              <<>>,
                              <<>>,
                              FALSE,
                              RInt(0),
                              <<<<category, "panels - standard sizes used">>>>)

\* _optimize_grating_materials
OptimizeGratingMaterials(materials) ==
    DropNone([i \in 1..Len(materials) |->
        OptimizePanelNesting(materials[i].shape_key, materials[i].specs, "grating")])

\* _optimize_frp_materials
OptimizeFrpMaterials(materials) ==
    LET noted(p) == IF p = None THEN None
                    ELSE [p EXCEPT !.optimization_notes =
                            Append(@, <<"FRP: Fiber direction constraints applied">>)]
    IN  DropNone([i \in 1..Len(materials) |->
            noted(OptimizePanelNesting(materials[i].shape_key, materials[i].specs,
                                       "frp"))])

\* _estimate_hardware_cost, dollars per piece
EstimateHardwareCost(shape_key) ==
    LET shape_upper == Upper(shape_key)
    IN  IF Contains(S_BOLT, shape_upper) \/ Contains(S_ASSEMBLY, shape_upper)
        THEN Rat(250, 100)
        ELSE IF Contains(S_CLIP, shape_upper) THEN Rat(150, 100)
        ELSE IF Contains(S_ANCHOR, shape_upper) THEN Rat(220, 100)
        ELSE Rat(100, 100)

\* variant: the loop stops at the first threshold met
RECURSIVE BulkDiscountFirstMet(_, _, _, _)
BulkDiscountFirstMet(acc, i, total_qty, params) ==
    IF i > Len(params.bulk_thresholds) THEN acc
    ELSE IF total_qty >= params.bulk_thresholds[i]
    THEN [discount_rate |-> params.bulk_discounts[i], bulk_applied |-> TRUE]
    ELSE BulkDiscountFirstMet(acc, i + 1, total_qty, params)

\* the loop over thresholds in _optimize_hardware_batching: every threshold
\* met overwrites discount_rate; acc is [discount_rate, bulk_applied]
RECURSIVE BulkDiscountLoop(_, _, _, _)
BulkDiscountLoop(acc, i, total_qty, params) ==
    IF i > Len(params.bulk_thresholds) THEN acc
    ELSE BulkDiscountLoop(
            IF total_qty >= params.bulk_thresholds[i]
            THEN [discount_rate |-> params.bulk_discounts[i], bulk_applied |-> TRUE]
            ELSE acc,
            i + 1, total_qty, params)

\* discount_rate (percent) and bulk_applied of _optimize_hardware_batching
BulkDiscount(total_qty) ==
    BulkDiscountLoop([discount_rate |-> 0, bulk_applied |-> FALSE], 1, total_qty,
                     svc.optimization_params.hardware)

\* _optimize_hardware_batching
OptimizeHardwareBatching(shape_key, specs) ==
    LET total_qty == TotalQuantity(specs)
        base_unit_cost == EstimateHardwareCost(shape_key)
        bulk == BulkDiscount(total_qty)
        unit_cost == RMul(base_unit_cost, Rat(100 - bulk.discount_rate, 100))
        total_cost == RMul(RInt(total_qty), unit_cost)
        notes == IF bulk.bulk_applied
                 THEN <<<<"Bulk discount applied", bulk.discount_rate, total_qty>>>>
                 ELSE <<>>
    IN  IF specs = <<>> THEN None
        ELSE MaterialPurchase(shape_key,
                              <<"pieces", total_qty>>,
                              total_qty,
                              total_cost,
                              RInt(0),
                              "hardware",
                              RInt(0),
                              0,
                              <<>>,
                              <<>>,
                              bulk.bulk_applied,
                              RInt(0),
                              notes)

\* _optimize_hardware_materials
OptimizeHardwareMaterials(materials) ==
    DropNone([i \in 1..Len(materials) |->
        OptimizeHardwareBatching(materials[i].shape_key, materials[i].specs)])

\* _optimize_general_materials
OptimizeGeneralMaterials(materials) ==
    [i \in 1..Len(materials) |->
        LET total_qty == TotalQuantity(materials[i].specs)
        IN  MaterialPurchase(materials[i].shape_key,
                             <<"As specified">>,
                             total_qty,
                             RInt(total_qty * 50),
                             RInt(0),
                             "general",
                             RInt(0),
                             0,
                             <<>>,
                             <<>>,
                             FALSE,
                             RInt(0),
                             <<<<"Basic quantity aggregation - consider manual review">>>>)]

----------------------------------------------------------------------------
(* Comprehensive service: optimize_project_materials *)

\* the if/elif chain on category in optimize_project_materials
Dispatch(category, materials) ==
    IF category = "linear" THEN OptimizeLinearMaterials(materials)
    ELSE IF category = "sheet" THEN OptimizeSheetMaterials(materials)
    ELSE IF category = "grating" THEN OptimizeGratingMaterials(materials)
    ELSE IF category = "frp" THEN OptimizeFrpMaterials(materials)
    ELSE IF category = "hardware" THEN OptimizeHardwareMaterials(materials)
    ELSE IF category = "structural" THEN OptimizeStructuralMaterials(materials)
    ELSE OptimizeGeneralMaterials(materials)

\* the loop over material_groups.items(): all_purchases in category order
AllPurchases(groups) ==
    Flatten([i \in 1..Len(CategoryOrder) |->
        IF groups[CategoryOrder[i]] = <<>> THEN <<>>
        ELSE Dispatch(CategoryOrder[i], groups[CategoryOrder[i]])])

\* category_counts: purchases per category in order of first appearance
RECURSIVE CategoryCounts(_, _)
CategoryCounts(purchases, counts) ==
    IF purchases = <<>> THEN counts
    ELSE LET cat == IF Head(purchases).material_category = "" THEN "general"
                    ELSE Head(purchases).material_category
             bump == IF \E i \in 1..Len(counts) : counts[i].cat = cat
                     THEN [i \in 1..Len(counts) |->
                             IF counts[i].cat = cat
                             THEN [counts[i] EXCEPT !.count = @ + 1]
                             ELSE counts[i]]
                     ELSE Append(counts, [cat |-> cat, count |-> 1])
         IN  CategoryCounts(Tail(purchases), bump)

\* variant: no separate result for an empty purchase list
ComprehensiveResultNoEmptyCase(all_purchases) ==
    NestingResult(all_purchases, RInt(0),
                  RSumSeq([i \in 1..Len(all_purchases) |-> all_purchases[i].total_cost]),
                  RInt(0),
                  <<"Optimized", Len(all_purchases), CategoryCounts(all_purchases, <<>>)>>)

\* the totals and the NestingResult of optimize_project_materials
ComprehensiveResult(all_purchases) ==
    LET total_cost ==
            RSumSeq([i \in 1..Len(all_purchases) |-> all_purchases[i].total_cost])
        weighted_waste ==
            IF RLt(RInt(0), total_cost)
            THEN RDiv(RSumSeq([i \in 1..Len(all_purchases) |->
                          RMul(all_purchases[i].waste_percentage,
                               all_purchases[i].total_cost)]),
                      total_cost)
            ELSE RInt(0)
        baseline_cost == RDiv(total_cost, Rat(85, 100))
        cost_savings == RSub(baseline_cost, total_cost)
    IN  IF all_purchases = <<>>
        THEN NestingResult(<<>>, RInt(0), RInt(0), RInt(0),
                           <<"No materials found for optimization">>)
        ELSE NestingResult(all_purchases, weighted_waste, total_cost, cost_savings,
                           <<"Optimized", Len(all_purchases),
                             CategoryCounts(all_purchases, <<>>)>>)

----------------------------------------------------------------------------
(* Simple service *)

\* NestingService.__init__
SimpleNestingServiceInit ==
    [standard_stock_lengths |-> <<720, 600, 480, 360, 240, 120>>,
     standard_plate_sizes |->
        << <<48, 96>>, <<48, 120>>, <<60, 120>>, <<60, 96>>, <<48, 144>>,
           <<60, 144>>, <<96, 96>>, <<96, 240>>, <<120, 480>>, <<96, 480>>,
           <<72, 144>> >>]

\* the plate test of optimize_project_materials
SimpleIsPlate(shape_key) == StartsWith(shape_key, S_PL) \/ Contains(S_DUCT, shape_key)

RECURSIVE AppendTimes(_, _, _, _)
AppendTimes(materials, shape_key, item, k) ==
    IF k <= 0 THEN materials
    ELSE AppendTimes(AppendToGroup(materials, shape_key, item), shape_key, item, k - 1)

\* _process_linear_entry
SimpleProcessLinearEntry(entry, linear_materials) ==
    LET shape_key == Strip(Upper(entry.shape_key))
        qty == entry.qty
        ft == entry.length_ft
        inches == entry.length_in
        cut_length == ft * 12 + inches
    IN  IF qty <= 0 \/ (ft = 0 /\ inches = 0) THEN linear_materials
        ELSE AppendTimes(linear_materials, shape_key, cut_length, qty)

\* _process_plate_entry
SimpleProcessPlateEntry(entry, plate_materials) ==
    LET shape_key == Strip(Upper(entry.shape_key))
        qty == entry.qty
        width == entry.width_in
        length == entry.length_ft * 12 + entry.length_in
        plate_key == <<shape_key, width, length>>
    IN  IF qty <= 0 \/ width = 0 THEN plate_materials
        ELSE IF length = 0 THEN plate_materials
        ELSE IF \E i \in 1..Len(plate_materials) : plate_materials[i].plate_key = plate_key
        THEN [i \in 1..Len(plate_materials) |->
                IF plate_materials[i].plate_key = plate_key
                THEN [plate_materials[i] EXCEPT !.qty = @ + qty]
                ELSE plate_materials[i]]
        ELSE Append(plate_materials,
                    [plate_key |-> plate_key, material |-> shape_key,
                     width |-> width, length |-> length, qty |-> qty])

\* the loop over takeoff_entries of optimize_project_materials:
\* acc is [linear_materials, plate_materials]
RECURSIVE SimpleProcessEntries(_, _)
SimpleProcessEntries(entries, acc) ==
    IF entries = <<>> THEN acc
    ELSE LET entry == Head(entries)
             shape_key == Strip(Upper(entry.shape_key))
             next ==
                IF shape_key = <<>> THEN acc
                ELSE IF entry.qty <= 0 THEN acc
                ELSE IF SimpleIsPlate(shape_key)
                THEN [acc EXCEPT !.plate_materials = SimpleProcessPlateEntry(entry, @)]
                ELSE [acc EXCEPT !.linear_materials = SimpleProcessLinearEntry(entry, @)]
         IN  SimpleProcessEntries(Tail(entries), next)

\* one iteration of the packing loop of _optimize_linear_material: no kerf
\* and no test of the cut against the stock length; inches
SimpleBinPackStep(st, cut_length, stock_length) ==
    LET fits == {i \in 1..Len(st.sticks) : st.sticks[i] >= cut_length}
    IN  IF fits # {}
        THEN LET i == CHOOSE j \in fits : \A k \in fits : j <= k
             IN  [st EXCEPT !.sticks[i] = @ - cut_length,
                            !.stick_cuts[i] = Append(@, cut_length)]
        ELSE [st EXCEPT !.sticks = Append(@, stock_length - cut_length),
                        !.stick_cuts = Append(@, <<cut_length>>)]

RECURSIVE SimpleBinPackLoop(_, _, _)
SimpleBinPackLoop(st, cuts, stock_length) ==
    IF cuts = <<>> THEN st
    ELSE SimpleBinPackLoop(SimpleBinPackStep(st, Head(cuts), stock_length),
                           Tail(cuts), stock_length)

\* _optimize_linear_material
SimpleOptimizeLinearMaterial(material, cuts) ==
    LET sorted_cuts == SortedDesc(cuts)
        stock_length == simple_svc.standard_stock_lengths[1]
        st == SimpleBinPackLoop([sticks |-> <<>>, stick_cuts |-> <<>>],
                                sorted_cuts, stock_length)
        num_sticks == Len(st.sticks)
        total_used == SumSeq(Flatten(st.stick_cuts))
        total_available == num_sticks * stock_length
        total_waste == total_available - total_used
        efficiency == IF total_available > 0
                      THEN RMul(Rat(total_used, total_available), RInt(100))
                      ELSE RInt(0)
        waste_percentage == IF total_available > 0
                            THEN RMul(Rat(total_waste, total_available), RInt(100))
                            ELSE RInt(0)
        cost_per_stick == RInt(100)
        total_cost == RMul(RInt(num_sticks), cost_per_stick)
        waste_cost == IF stock_length > 0
                      THEN RMul(Rat(total_waste, stock_length), cost_per_stick)
                      ELSE RInt(0)
    IN  IF cuts = <<>> THEN None
        ELSE MaterialPurchase(material,
                              <<"sticks", Rat(stock_length, 12)>>,
                              num_sticks,
                              total_cost,
                              waste_percentage,
                              "",
                              waste_cost,
                              stock_length,
                              st.stick_cuts,
                              Flatten(st.stick_cuts),
                              FALSE,
                              RInt(0),
                              <<>>)

\* the search for best_fit in _optimize_plate_material: the first catalog
\* sheet of minimal waste among those the piece fits, else the default
SimpleBestFit(width, length) ==
    LET sizes == simple_svc.standard_plate_sizes
        fit == {i \in 1..Len(sizes) :
                    \/ (width <= sizes[i][1] /\ length <= sizes[i][2])
                    \/ (width <= sizes[i][2] /\ length <= sizes[i][1])}
        waste(i) == sizes[i][1] * sizes[i][2] - width * length
        best == CHOOSE i \in fit : \A j \in fit :
                    waste(i) < waste(j) \/ (waste(i) = waste(j) /\ i <= j)
    IN  IF fit = {} THEN <<96, 240>> ELSE sizes[best]

\* _optimize_plate_material
SimpleOptimizePlateMaterial(plate_key, plate_data) ==
    LET material == plate_data.material
        width == plate_data.width
        length == plate_data.length
        qty == plate_data.qty
        piece_area == width * length
        best_fit == SimpleBestFit(width, length)
        stock_area == best_fit[1] * best_fit[2]
        best_waste == stock_area - piece_area
        waste_percentage == RMul(Rat(best_waste, stock_area), RInt(100))
        total_sqft_both_sides == RMul(Rat(piece_area, 144), RInt(2 * qty))
        total_cost == RMul(total_sqft_both_sides, RInt(5))
        waste_cost == RMul(Rat(best_waste, stock_area), total_cost)
    IN  MaterialPurchase(material,
                         <<"sheets", best_fit[1], best_fit[2]>>,
                         qty,
                         total_cost,
                         waste_percentage,
                         "",
                         waste_cost,
                         0,
                         <<>>,
                         Repeat(piece_area, qty),
                         FALSE,
                         RInt(0),
                         <<>>)

\* the totals and the NestingResult of the simple optimize_project_materials
SimpleResult(linear_purchases, plate_purchases) ==
    LET all_purchases == linear_purchases \o plate_purchases
        total_cost ==
            RSumSeq([i \in 1..Len(all_purchases) |-> all_purchases[i].total_cost])
        total_waste ==
            IF RLt(RInt(0), total_cost)
            THEN RDiv(RSumSeq([i \in 1..Len(all_purchases) |->
                          RMul(all_purchases[i].waste_percentage,
                               all_purchases[i].total_cost)]),
                      total_cost)
            ELSE RInt(0)
    IN  IF all_purchases = <<>>
        THEN NestingResult(<<>>, RInt(0), RInt(0), RInt(0),
                           <<"No materials to optimize">>)
        ELSE NestingResult(all_purchases, total_waste, total_cost, RInt(0),
                           <<"Optimized", Len(linear_purchases), Len(plate_purchases)>>)

\* linear_materials = {} and plate_materials = {}, local to the call
SimpleEmptyMaterials == [linear_materials |-> <<>>, plate_materials |-> <<>>]

\* the loop over linear_materials.items()
SimpleLinearPurchases(linear_materials) ==
    DropNone([i \in 1..Len(linear_materials) |->
        SimpleOptimizeLinearMaterial(linear_materials[i].shape_key,
                                     linear_materials[i].specs)])

\* the loop over plate_materials.items()
SimplePlatePurchases(plate_materials) ==
    DropNone([i \in 1..Len(plate_materials) |->
        SimpleOptimizePlateMaterial(plate_materials[i].plate_key, plate_materials[i])])

\* the body of optimize_project_materials of the simple service
SimpleRun(takeoff_entries) ==
    LET acc == SimpleProcessEntries(takeoff_entries, SimpleEmptyMaterials)
    IN  SimpleResult(SimpleLinearPurchases(acc.linear_materials),
                     SimplePlatePurchases(acc.plate_materials))

----------------------------------------------------------------------------
(* API: api/v1/nesting.py, which calls the simple service *)

RMax(a, b) == IF RLt(a, b) THEN b ELSE a

RMin(a, b) == IF RLt(b, a) THEN b ELSE a

\* min(100.0, max(0.0, x))
Clamp0To100(x) == RMin(RInt(100), RMax(RInt(0), x))

\* the number of tenths printed by f"{x:.1f}": round half to even
RoundTenths(x) ==
    LET n == x.n * 10
        q == n \div x.d
        r == n - q * x.d
    IN  IF 2 * r > x.d THEN q + 1
        ELSE IF 2 * r < x.d THEN q
        ELSE IF q % 2 = 0 THEN q ELSE q + 1

\* raise HTTPException(status_code, detail)
HTTPException(status_code, detail) == [status_code |-> status_code, detail |-> detail]

\* attribute lookup on a dataclass instance: missing names raise AttributeError
HasAttr(obj, name) == name \in DOMAIN obj

\* _calculate_efficiency_grade
CalculateEfficiencyGrade(waste_percentage) ==
    IF RLe(waste_percentage, RInt(10)) THEN "A"
    ELSE IF RLe(waste_percentage, RInt(20)) THEN "B"
    ELSE IF RLe(waste_percentage, RInt(35)) THEN "C"
    ELSE "D"

\* _generate_alternatives
GenerateAlternatives(entry, current_purchase) ==
    LET by_waste ==
            (IF RLt(RInt(30), current_purchase.waste_percentage)
             THEN <<"Consider custom length to reduce waste",
                    "Combine with similar cuts from other entries">>
             ELSE <<>>)
            \o (IF RLt(current_purchase.waste_percentage, RInt(5))
                THEN <<"Excellent efficiency - consider as standard size">>
                ELSE <<>>)
        shape_key == Upper(entry.shape_key)
        alternatives ==
            by_waste \o
            (IF Contains(S_PL, shape_key) \/ Contains(S_PLATE, shape_key)
             THEN <<"Consider nesting with other plate cuts">>
             ELSE <<"Check for drop utilization opportunities">>)
    IN  SubSeq(alternatives, 1, IF Len(alternatives) < 3 THEN Len(alternatives) ELSE 3)

\* shape_counts of _generate_recommendations: purchases per shape key, in
\* order of first appearance
RECURSIVE ShapeCounts(_, _)
ShapeCounts(purchases, counts) ==
    IF purchases = <<>> THEN counts
    ELSE LET shape == Head(purchases).shape_key
             bump == IF \E i \in 1..Len(counts) : counts[i].shape = shape
                     THEN [i \in 1..Len(counts) |->
                             IF counts[i].shape = shape
                             THEN [counts[i] EXCEPT !.count = @ + 1]
                             ELSE counts[i]]
                     ELSE Append(counts, [shape |-> shape, count |-> 1])
         IN  ShapeCounts(Tail(purchases), bump)

\* variant: three purchases of a shape key already ask for consolidation
GenerateRecommendationsFrom3(optimization_result) ==
    LET purchases == optimization_result.material_purchases
        total_waste == optimization_result.total_waste_percentage
        shape_counts == ShapeCounts(purchases, <<>>)
        bulk == SelectSeq(shape_counts, LAMBDA c : c.count >= 3)
        high == SelectSeq(purchases, LAMBDA p : RLt(RInt(40), p.waste_percentage))
        recommendations ==
            (IF RLt(RInt(25), total_waste) THEN <<[kind |-> "waste_above_25"]>> ELSE <<>>)
            \o (IF RLt(total_waste, RInt(10)) THEN <<[kind |-> "excellent"]>> ELSE <<>>)
            \o [i \in 1..Len(bulk) |->
                    [kind |-> "bulk", shape |-> bulk[i].shape, count |-> bulk[i].count]]
            \o [i \in 1..Len(high) |->
                    [kind |-> "high_waste",
                     size_description |-> high[i].size_description,
                     waste_tenths |-> RoundTenths(high[i].waste_percentage)]]
    IN  IF recommendations = <<>> THEN <<[kind |-> "none"]>> ELSE recommendations

\* _generate_recommendations; a recommendation is kept as its kind and the
\* values printed in it
GenerateRecommendations(optimization_result) ==
    LET purchases == optimization_result.material_purchases
        total_waste == optimization_result.total_waste_percentage
        shape_counts == ShapeCounts(purchases, <<>>)
        bulk == SelectSeq(shape_counts, LAMBDA c : c.count > 3)
        high == SelectSeq(purchases, LAMBDA p : RLt(RInt(40), p.waste_percentage))
        recommendations ==
            (IF RLt(RInt(25), total_waste) THEN <<[kind |-> "waste_above_25"]>> ELSE <<>>)
            \o (IF RLt(total_waste, RInt(10)) THEN <<[kind |-> "excellent"]>> ELSE <<>>)
            \o [i \in 1..Len(bulk) |->
                    [kind |-> "bulk", shape |-> bulk[i].shape, count |-> bulk[i].count]]
            \o [i \in 1..Len(high) |->
                    [kind |-> "high_waste",
                     size_description |-> high[i].size_description,
                     waste_tenths |-> RoundTenths(high[i].waste_percentage)]]
    IN  IF recommendations = <<>> THEN <<[kind |-> "none"]>> ELSE recommendations

\* a row of takeoff_entries as the endpoint reads it
Row(entry, total_weight_tons, total_price) ==
    [entry |-> entry, total_weight_tons |-> total_weight_tons, total_price |-> total_price]

\* valid_entries of optimize_project_materials
ValidRows(rows) ==
    SelectSeq(rows, LAMBDA row :
        /\ row.entry.shape_key # <<>>
        /\ row.entry.qty > 0
        /\ row.entry.length_ft > 0
        /\ row.total_weight_tons > 0)

\* entry_dicts of optimize_project_materials
EntryDicts(rows) ==
    [i \in 1..Len(rows) |-> [rows[i].entry EXCEPT !.shape_key = Strip(@)]]

\* MaterialPurchaseResponse built from a purchase
MaterialPurchaseResponse(purchase) ==
    [shape_key |-> purchase.shape_key,
     size_description |-> purchase.size_description,
     pieces_needed |-> IF purchase.pieces_needed < 1 THEN 1 ELSE purchase.pieces_needed,
     total_cost |-> purchase.total_cost,
     waste_percentage |-> Clamp0To100(purchase.waste_percentage),
     waste_cost |-> purchase.waste_cost,
     cuts_count |-> Len(purchase.cuts_from_this_size)]

\* optimize_project_materials of the API, from the service's result on
ProjectResponse(valid_entries, optimization_result) ==
    LET purchases == optimization_result.material_purchases
        original_cost == SumSeq([i \in 1..Len(valid_entries) |-> valid_entries[i].total_price])
        actual_savings == RMax(RInt(0), RSub(RInt(original_cost), optimization_result.total_cost))
    IN  IF purchases = <<>>
        THEN HTTPException(400, <<"No material purchase recommendations generated">>)
        ELSE [status_code |-> 200,
              material_purchases |->
                  [i \in 1..Len(purchases) |-> MaterialPurchaseResponse(purchases[i])],
              total_waste_percentage |->
                  Clamp0To100(optimization_result.total_waste_percentage),
              total_cost |-> optimization_result.total_cost,
              cost_savings |-> actual_savings,
              optimization_summary |-> optimization_result.optimization_summary,
              recommendations |-> GenerateRecommendations(optimization_result)]

\* optimize_project_materials of the API, from valid_entries on
ProjectResponseOfValid(valid_entries) ==
    IF valid_entries = <<>>
    THEN HTTPException(400, <<"No valid entries found for optimization">>)
    ELSE ProjectResponse(valid_entries, SimpleRun(EntryDicts(valid_entries)))

\* POST /optimize: optimize_project_materials of the API
ApiOptimizeProject(project_exists, rows) ==
    IF ~project_exists THEN HTTPException(404, <<"Project not found">>)
    ELSE IF rows = <<>> THEN HTTPException(400, <<"no takeoff entries to optimize">>)
    ELSE ProjectResponseOfValid(ValidRows(rows))

NoEntry == [none |-> TRUE]

\* optimize_single_entry, from the purchase of the service's result on
SingleEntryResponse(entry, purchase) ==
    IF ~HasAttr(purchase, "standard_size")
    THEN HTTPException(500, <<"Entry optimization failed",
                              "object has no attribute 'standard_size'">>)
    ELSE [status_code |-> 200,
          optimized_cost |-> purchase.total_cost,
          waste_percentage |-> Clamp0To100(purchase.waste_percentage),
          waste_cost |-> purchase.waste_cost,
          purchase_size |-> purchase.size_description,
          cuts_from_size |-> IF purchase.cuts_from_this_size # <<>>
                             THEN Len(purchase.cuts_from_this_size) ELSE 1,
          material_utilization |->
              RMax(RInt(0), RMin(RInt(100),
                                 RSub(RInt(100), purchase.waste_percentage))),
          supplier |-> IF HasAttr(purchase.standard_size, "supplier")
                       THEN purchase.standard_size.supplier
                       ELSE <<"Standard Supply">>,
          lead_time |-> <<"2-3 days">>,
          efficiency_grade |-> CalculateEfficiencyGrade(purchase.waste_percentage),
          alternative_suggestions |-> GenerateAlternatives(entry, purchase)]

\* optimize_single_entry, from the service's result on
SingleEntryResult(entry, optimization_result) ==
    IF optimization_result.material_purchases = <<>>
    THEN HTTPException(400, <<"Unable to optimize entry">>)
    ELSE SingleEntryResponse(entry, optimization_result.material_purchases[1])

\* POST /optimize-entry: optimize_single_entry
ApiOptimizeSingleEntry(entry) ==
    LET missing_fields ==
            (IF entry.shape_key = <<>> THEN <<"shape_key">> ELSE <<>>)
            \o (IF entry.qty = 0 THEN <<"qty">> ELSE <<>>)
            \o (IF entry.length_ft = 0 THEN <<"length_ft">> ELSE <<>>)
    IN  IF entry = NoEntry THEN HTTPException(400, <<"Entry data is required">>)
        ELSE IF missing_fields # <<>>
        THEN HTTPException(400, <<"Missing required fields", missing_fields>>)
        ELSE IF entry.qty <= 0
        THEN HTTPException(400, <<"Quantity must be greater than 0">>)
        ELSE IF entry.length_ft <= 0
        THEN HTTPException(400, <<"Length must be greater than 0">>)
        ELSE SingleEntryResult(entry,
                 SimpleRun(<<[entry EXCEPT !.shape_key = Strip(@)]>>))

----------------------------------------------------------------------------
(* Inputs *)

Entry(shape_key, qty, length_ft, length_in, width_in, thickness_in) ==
    [shape_key |-> shape_key, qty |-> qty, length_ft |-> length_ft,
     length_in |-> length_in, width_in |-> width_in, thickness_in |-> thickness_in]

S_w12x26_raw == <<" ", "w", "1", "2", "x", "2", "6">>
S_DUCT24 == S_DUCT \o <<"2", "4">>
S_19W4_1 == S_19W4 \o <<"-", "1">>
S_GRATE1 == S_GRATE \o <<"1">>
S_FRP_M_1 == S_FRP_M \o <<"1">>

\* [qty, length_ft, length_in] of linear pieces: 5 x 150", 4 x 180",
\* 1 x 800", 2 x 120", 1 x 720"
LinearDims == {<<5, 12, 6>>, <<4, 15, 0>>, <<1, 66, 8>>, <<2, 10, 0>>, <<1, 60, 0>>}

LinearEntries ==
    {Entry(k, d[1], d[2], d[3], 0, 0) :
        k \in {S_W12X26, S_PIPE2, S_w12x26_raw}, d \in LinearDims}

\* [qty, width_in, length_ft, length_in]: 10 of 24 x 36, 3 of 30 x 100,
\* 1 of 200 x 240 (fits no catalog sheet)
SheetDims == {<<10, 24, 3, 0>>, <<3, 30, 8, 4>>, <<1, 200, 20, 0>>}

SheetEntries ==
    {Entry(S_PL14, d[1], d[3], d[4], d[2], 2) : d \in SheetDims}
        \cup {Entry(S_DUCT24, 2, 10, 0, 24, 1)}

PanelEntries ==
    {Entry(k, q, 10, 0, 36, 0) : k \in {S_19W4_1, S_GRATE1, S_FRP_M_1}, q \in {2, 7}}

HardwareEntries ==
    {Entry(k, q, 0, 0, 0, 0) : k \in {S_NUT, S_CLIP}, q \in {24, 25, 50, 120, 250}}

GeneralEntries == {Entry(S_M12, 3, 0, 0, 0, 0), Entry(<<" ">>, 1, 1, 0, 0, 0)}

\* entries with a zero or negative quantity, length or width
InvalidEntries ==
    {Entry(S_PIPE2, 0, 10, 0, 0, 0), Entry(S_PL14, -1, 3, 0, 24, 2),
     Entry(S_PIPE2, 2, 0, 0, 0, 0), Entry(S_PIPE2, 2, -5, 0, 0, 0),
     Entry(S_PL14, 2, 3, 0, 0, 2), Entry(S_PL14, 2, 3, 0, -24, 2)}

EntrySet ==
    LinearEntries \cup SheetEntries \cup PanelEntries \cup HardwareEntries
        \cup GeneralEntries \cup InvalidEntries

RECURSIVE SeqsUpTo(_, _)
SeqsUpTo(S, k) ==
    IF k = 0 THEN {<<>>}
    ELSE LET shorter == SeqsUpTo(S, k - 1)
         IN  shorter \cup {Append(s, x) : s \in shorter, x \in S}

TakeoffInputs == SeqsUpTo(EntrySet, MaxEntries)

\* entries of the calls that run concurrently: sticks and sheets
ConcurrentEntries == {Entry(S_PIPE2, 2, 10, 0, 0, 0), Entry(S_PL14, 10, 3, 0, 24, 2)}

ConcurrentInputs == SeqsUpTo(ConcurrentEntries, MaxEntries)

RECURSIVE SubLists(_)
SubLists(s) ==
    IF s = <<>> THEN {<<>>}
    ELSE LET rest == SubLists(Tail(s))
         IN  rest \cup {<<Head(s)>> \o r : r \in rest}

\* rows of a project: PL1/4 plates of five sizes, five W12X26 cuts of 150",
\* and a plate row without weight
ProjectRows ==
    <<Row(Entry(S_W12X26, 5, 12, 6, 0, 0), 1, 500),
      Row(Entry(S_PL14, 1, 3, 0, 24, 2), 1, 0),
      Row(Entry(S_PL14, 1, 8, 4, 30, 2), 1, 40),
      Row(Entry(S_PL14, 1, 8, 0, 48, 2), 1, 0),
      Row(Entry(S_PL14, 1, 10, 0, 60, 2), 1, 0),
      Row(Entry(S_PL14, 1, 1, 0, 12, 2), 1, 0),
      Row(Entry(S_PL14, 1, 2, 0, 20, 2), 0, 0)>>

ApiProjectInputs == SubLists(ProjectRows)

\* request.entry of the single-entry endpoint
SingleEntryInputs ==
    EntrySet \cup {NoEntry, Entry(<<>>, 1, 1, 0, 0, 0), Entry(S_W12X26, 1, 0, 6, 0, 0),
                   Entry(S_PL14, 10, 3, 0, 0, 2)}

\* shape keys given to the classifier: up to MaxFrags fragments in a row
Fragments ==
    {S_PL, S_DUCT, S_19W4, S_15W4, S_11W4, S_FRP_M, S_CLIP, S_ANCHOR, S_ASSEMBLY,
     S_GRATE, S_PIPE, S_QUOTE, S_W, S_NUT, S_M12, <<"X">>, <<"2">>, <<" ">>,
     <<"p", "l">>}

RECURSIVE Concat(_)
Concat(ss) == IF ss = <<>> THEN <<>> ELSE Head(ss) \o Concat(Tail(ss))

ClassifierKeys == {Concat(fs) : fs \in SeqsUpTo(Fragments, MaxFrags)}

\* cut lists given to the linear optimizer directly
CutInputs ==
    {CutsOfSpecs(ds) :
        ds \in SeqsUpTo({[length |-> d[2] * 12 + d[3], quantity |-> d[1]] :
                            d \in LinearDims}, MaxEntries)} \ {<<>>}

KerfInputs == {0, 1, 2}

\* piece sizes given to the sheet optimizer directly: [width, length] in
\* inches, and the quantity of the size group
PieceWidths == {-24, 0, 24, 30, 100, 200}

PieceLengths == {-36, 0, 30, 36, 48, 100, 240}

PieceQuantities == {1, 10}

----------------------------------------------------------------------------
(* The state machine: calls on the two module-level service instances *)

NoCall == [op |-> "none"]

NoThreads == <<>>

\* two requests served at the same time by the module-level instance
Threads == {1, 2}

\* variant: one dict kept on the instance and used by every call
GroupsOwnerShared(t) == 1

\* material_groups (linear_materials, plate_materials) is a local variable of
\* the call: the dict a call appends to is its own
GroupsOwner(t) == t

Init ==
    /\ svc = NestingServiceInit
    /\ simple_svc = SimpleNestingServiceInit
    /\ pc = "idle"
    /\ call = NoCall
    /\ material_groups = [c \in Range(CategoryOrder) |-> <<>>]
    /\ result = None
    /\ first_result = None
    /\ threads = NoThreads

\* nesting_service.optimize_project_materials(entries, project_id),
\* comprehensive service
OptimizeProjectMaterials ==
    /\ pc = "idle"
    /\ \E entries \in TakeoffInputs :
        /\ call' = [op |-> "comprehensive", entries |-> entries]
        /\ material_groups' = CategorizeAll(entries, EmptyGroups)
    /\ \E all_purchases \in {AllPurchases(material_groups')} :
        result' = ComprehensiveResult(all_purchases)
    /\ pc' = "done"
    /\ UNCHANGED <<svc, simple_svc, first_result, threads>>

\* nesting_service.optimize_project_materials(entries, project_id),
\* simple service
SimpleOptimizeProjectMaterials ==
    /\ pc = "idle"
    /\ \E entries \in TakeoffInputs :
        /\ call' = [op |-> "simple", entries |-> entries]
        /\ result' = SimpleRun(entries)
    /\ pc' = "done"
    /\ UNCHANGED <<svc, simple_svc, material_groups, first_result, threads>>

\* the same call once more on the same instance with the same entries
RepeatCall ==
    /\ pc = "done"
    /\ first_result' = result
    /\ IF call.op = "comprehensive"
       THEN /\ material_groups' = CategorizeAll(call.entries, EmptyGroups)
            /\ \E all_purchases \in {AllPurchases(material_groups')} :
                result' = ComprehensiveResult(all_purchases)
       ELSE /\ result' = SimpleRun(call.entries)
            /\ UNCHANGED material_groups
    /\ pc' = "repeated"
    /\ UNCHANGED <<svc, simple_svc, call, threads>>

\* the classification of one shape key by both services
Classify ==
    /\ pc = "idle"
    /\ \E raw \in ClassifierKeys :
        LET shape_key == Strip(Upper(raw))
        IN  /\ shape_key # <<>>
            /\ call' = [op |-> "classify", raw |-> raw, shape_key |-> shape_key]
            /\ result' = [category |-> DetermineMaterialCategory(shape_key),
                          simple_plate |-> SimpleIsPlate(shape_key)]
    /\ pc' = "classified"
    /\ UNCHANGED <<svc, simple_svc, material_groups, first_result, threads>>

\* _bin_pack_linear on every standard stock length and the choice of
\* _optimize_linear_cuts among them, for a given kerf
PackLinear ==
    /\ pc = "idle"
    /\ \E cuts \in CutInputs, kerf \in KerfInputs :
        /\ call' = [op |-> "pack", cuts |-> cuts, kerf |-> kerf]
        /\ result' =
            [per_stock |-> [i \in 1..Len(svc.standard_stock_lengths) |->
                               BinPackLinear(SortedDesc(cuts),
                                             svc.standard_stock_lengths[i], kerf)],
             best |-> BestLinearResult(cuts, kerf)]
    /\ pc' = "packed"
    /\ UNCHANGED <<svc, simple_svc, material_groups, first_result, threads>>

\* _find_best_sheet_fit and _optimize_single_sheet_size of the comprehensive
\* service and the sheet search of _optimize_plate_material of the simple
\* service, for one piece size
NestSheetSize ==
    /\ pc = "idle"
    /\ \E width \in PieceWidths, length \in PieceLengths, quantity \in PieceQuantities :
        /\ call' = [op |-> "nest", width |-> width, length |-> length,
                    quantity |-> quantity]
        /\ result' =
            [best_fit |-> FindBestSheetFit(width, length, "sheet"),
             sheet_result |->
                OptimizeSingleSheetSize(
                    <<[shape_key |-> S_PL14, category |-> "sheet", length |-> length,
                       width |-> width, thickness |-> 2, quantity |-> quantity]>>,
                    "sheet"),
             simple_best_fit |-> SimpleBestFit(width, length)]
    /\ pc' = "nested"
    /\ UNCHANGED <<svc, simple_svc, material_groups, first_result, threads>>

\* two calls of optimize_project_materials enter the same service instance
StartConcurrentCalls ==
    /\ pc = "idle"
    /\ \E op \in {"comprehensive", "simple"} :
        \E e1 \in ConcurrentInputs, e2 \in ConcurrentInputs :
            /\ call' = [op |-> op, concurrent |-> TRUE]
            /\ threads' = [t \in Threads |->
                    [entries |-> IF t = 1 THEN e1 ELSE e2,
                     k |-> 1,
                     pos |-> "categorize",
                     groups |-> IF op = "comprehensive"
                                THEN [c \in Range(CategoryOrder) |-> <<>>]
                                ELSE SimpleEmptyMaterials,
                     purchases |-> <<>>,
                     result |-> None]]
    /\ pc' = "concurrent"
    /\ UNCHANGED <<svc, simple_svc, material_groups, result, first_result>>

\* one iteration of "for entry in takeoff_entries" in call t
ThreadCategorize(t) ==
    /\ pc = "concurrent"
    /\ threads[t].pos = "categorize"
    /\ threads[t].k <= Len(threads[t].entries)
    /\ LET entry == threads[t].entries[threads[t].k]
           o == GroupsOwner(t)
       IN  threads' =
             [threads EXCEPT
                ![o].groups = IF call.op = "comprehensive"
                              THEN CategorizeAndProcessEntry(entry, @)
                              ELSE SimpleProcessEntries(<<entry>>, @),
                ![t].k = @ + 1]
    /\ UNCHANGED <<svc, simple_svc, pc, call, material_groups, result, first_result>>

\* the optimization loops of call t, after its last entry
ThreadOptimize(t) ==
    /\ pc = "concurrent"
    /\ threads[t].pos = "categorize"
    /\ threads[t].k > Len(threads[t].entries)
    /\ LET groups == threads[GroupsOwner(t)].groups
       IN  threads' =
             [threads EXCEPT
                ![t].purchases =
                    IF call.op = "comprehensive" THEN AllPurchases(groups)
                    ELSE <<SimpleLinearPurchases(groups.linear_materials),
                           SimplePlatePurchases(groups.plate_materials)>>,
                ![t].pos = "optimized"]
    /\ UNCHANGED <<svc, simple_svc, pc, call, material_groups, result, first_result>>

\* the totals and the return of call t
ThreadReturn(t) ==
    /\ pc = "concurrent"
    /\ threads[t].pos = "optimized"
    /\ threads' =
         [threads EXCEPT
            ![t].result =
                IF call.op = "comprehensive"
                THEN ComprehensiveResult(threads[t].purchases)
                ELSE SimpleResult(threads[t].purchases[1], threads[t].purchases[2]),
            ![t].pos = "returned"]
    /\ UNCHANGED <<svc, simple_svc, pc, call, material_groups, result, first_result>>

\* POST /optimize of the API on the rows of a project
OptimizeProjectEndpoint ==
    /\ pc = "idle"
    /\ \E project_exists \in BOOLEAN, rows \in ApiProjectInputs :
        /\ call' = [op |-> "api_project", project_exists |-> project_exists,
                    rows |-> rows]
        /\ result' = ApiOptimizeProject(project_exists, rows)
    /\ pc' = "responded"
    /\ UNCHANGED <<svc, simple_svc, material_groups, first_result, threads>>

\* POST /optimize-entry of the API on one entry
OptimizeSingleEntry ==
    /\ pc = "idle"
    /\ \E entry \in SingleEntryInputs :
        /\ call' = [op |-> "api_entry", entry |-> entry]
        /\ result' = ApiOptimizeSingleEntry(entry)
    /\ pc' = "responded"
    /\ UNCHANGED <<svc, simple_svc, material_groups, first_result, threads>>

\* the caller is done with the result; concurrent calls have all returned
Return ==
    /\ pc # "idle"
    /\ pc = "concurrent" => \A t \in Threads : threads[t].pos = "returned"
    /\ pc' = "idle"
    /\ call' = NoCall
    /\ result' = None
    /\ first_result' = None
    /\ material_groups' = [c \in Range(CategoryOrder) |-> <<>>]
    /\ threads' = NoThreads
    /\ UNCHANGED <<svc, simple_svc>>

Next ==
    \/ OptimizeProjectMaterials
    \/ SimpleOptimizeProjectMaterials
    \/ RepeatCall
    \/ Classify
    \/ PackLinear
    \/ NestSheetSize
    \/ StartConcurrentCalls
    \/ OptimizeProjectEndpoint
    \/ OptimizeSingleEntry
    \/ \E t \in Threads : ThreadCategorize(t)
    \/ \E t \in Threads : ThreadOptimize(t)
    \/ \E t \in Threads : ThreadReturn(t)
    \/ Return

Spec == Init /\ [][Next]_vars

----------------------------------------------------------------------------
(* Properties *)

IsRun == pc \in {"done", "repeated"}

Purchases == IF IsRun THEN result.material_purchases ELSE <<>>

\* kerf (eighths of an inch) the service applied to the cuts of purchase p
KerfOf(p) ==
    IF call.op = "comprehensive" THEN svc.optimization_params[p.material_category].kerf
    ELSE 0

FiveCuts150 == <<150, 150, 150, 150, 150>>

\* C1: for every linear or structural purchase of a run,
\* pieces_needed * stock_length >= sum of the assigned cuts + kerf per cut
C1_StockCoversCuts ==
    \A i \in 1..Len(Purchases) :
        LET p == Purchases[i]
            assigned == Flatten(p.cuts_per_stick)
        IN  p.stock_length > 0 =>
                p.pieces_needed * p.stock_length * 8
                    >= SumSeq(assigned) * 8 + KerfOf(p) * Len(assigned)

\* C2: every purchase of a run, in every family, has
\* 0 <= waste_percentage <= 100
C2_WasteInRange ==
    \A i \in 1..Len(Purchases) :
        /\ RLe(RInt(0), Purchases[i].waste_percentage)
        /\ RLe(Purchases[i].waste_percentage, RInt(100))

----------------------------------------------------------------------------
(* C4: a cut longer than every stock length *)

NormalizedKey(entry) == Strip(Upper(entry.shape_key))

LongestStock(lengths) == CHOOSE l \in Range(lengths) : \A m \in Range(lengths) : m <= l

\* the entry reaches the linear / structural packing of the service called
IsLinearEntry(op, entry) ==
    /\ NormalizedKey(entry) # <<>>
    /\ entry.qty > 0
    /\ IF op = "comprehensive"
       THEN DetermineMaterialCategory(NormalizedKey(entry)) \in {"linear", "structural"}
       ELSE ~SimpleIsPlate(NormalizedKey(entry))

\* shape keys of the call with a cut longer than every candidate stock length
InfeasibleKeys ==
    {NormalizedKey(call.entries[i]) : i \in
        {j \in 1..Len(call.entries) :
            /\ IsLinearEntry(call.op, call.entries[j])
            /\ call.entries[j].length_ft * 12 + call.entries[j].length_in
                 > LongestStock(IF call.op = "comprehensive"
                                THEN svc.standard_stock_lengths
                                ELSE simple_svc.standard_stock_lengths)}}

PurchasesOf(op, entries) ==
    IF op = "comprehensive" THEN AllPurchases(CategorizeAll(entries, EmptyGroups))
    ELSE SimpleRun(entries).material_purchases

OverFilled(p) ==
    /\ p.stock_length > 0
    /\ \E k \in 1..Len(p.cuts_per_stick) : SumSeq(p.cuts_per_stick[k]) > p.stock_length

\* C4: when a linear shape key has a cut longer than every candidate stock
\* length, no purchase over-fills a stick and the purchases are exactly those
\* of the same call without the entries of that shape key
C4_InfeasibleKeyIsolated ==
    (IsRun /\ InfeasibleKeys # {}) =>
        /\ \A i \in 1..Len(Purchases) : ~OverFilled(Purchases[i])
        /\ Purchases =
             PurchasesOf(call.op,
                         SelectSeq(call.entries,
                                   LAMBDA e : NormalizedKey(e) \notin InfeasibleKeys))

----------------------------------------------------------------------------
(* C5, C6: packing scenarios *)

IsScenarioEntry(entries) ==
    /\ Len(entries) = 1
    /\ NormalizedKey(entries[1]) = S_W12X26
    /\ CutsOfSpecs(<<[length |-> entries[1].length_ft * 12 + entries[1].length_in,
                      quantity |-> entries[1].qty]>>) = FiveCuts150

\* C5 as stated: five 150" cuts of W12X26 with kerf 0 give 2 sticks of 720"
\* (four cuts, then one) with waste (1440 - 750) / 1440 * 100, in the simple
\* optimizer and in the comprehensive one
C5_Original ==
    /\ (pc = "done" /\ call.op = "simple" /\ IsScenarioEntry(call.entries)) =>
            /\ Len(Purchases) = 1
            /\ Purchases[1].pieces_needed = 2
            /\ Purchases[1].stock_length = 720
            /\ Purchases[1].cuts_per_stick = <<<<150, 150, 150, 150>>, <<150>>>>
            /\ Purchases[1].waste_percentage = Rat(69000, 1440)
    /\ (pc = "packed" /\ call.cuts = FiveCuts150 /\ call.kerf = 0) =>
            /\ result.best # None
            /\ result.best.sticks_needed = 2
            /\ result.best.stock_length = 720
            /\ result.best.cuts_per_stick = <<<<150, 150, 150, 150>>, <<150>>>>
            /\ result.best.waste_percentage = Rat(69000, 1440)

\* C5 amended: the simple optimizer gives 2 sticks of 720" (four cuts, then
\* one) with waste (1440 - 750) / 1440 * 100; the comprehensive optimizer,
\* which keeps the candidate of highest utilization, gives 2 sticks of 480"
\* (three cuts, then two) with waste (960 - 750) / 960 * 100 at kerf 0, and
\* with the structural kerf 0.25 of a run the same 2 sticks of 480"
C5_Amended ==
    /\ (pc = "done" /\ call.op = "simple" /\ IsScenarioEntry(call.entries)) =>
            /\ Len(Purchases) = 1
            /\ Purchases[1].pieces_needed = 2
            /\ Purchases[1].stock_length = 720
            /\ Purchases[1].cuts_per_stick = <<<<150, 150, 150, 150>>, <<150>>>>
            /\ Purchases[1].waste_percentage = Rat(69000, 1440)
    /\ (pc = "packed" /\ call.cuts = FiveCuts150 /\ call.kerf = 0) =>
            /\ result.per_stock[1].sticks_needed = 2
            /\ result.per_stock[1].cuts_per_stick = <<<<150, 150, 150, 150>>, <<150>>>>
            /\ result.best # None
            /\ result.best.sticks_needed = 2
            /\ result.best.stock_length = 480
            /\ result.best.cuts_per_stick = <<<<150, 150, 150>>, <<150, 150>>>>
            /\ result.best.waste_percentage = Rat(21000, 960)
    /\ (pc = "done" /\ call.op = "comprehensive" /\ IsScenarioEntry(call.entries)) =>
            /\ Len(Purchases) = 1
            /\ Purchases[1].pieces_needed = 2
            /\ Purchases[1].stock_length = 480
            /\ Purchases[1].cuts_per_stick = <<<<150, 150, 150>>, <<150, 150>>>>

C5_Witness ==
    /\ pc = "packed"
    /\ call.cuts = FiveCuts150
    /\ call.kerf = 0
    /\ result.best.stock_length = 480
    /\ result.best.sticks_needed = 2

AllEqual(cuts) == \A i \in 1..Len(cuts) : cuts[i] = cuts[1]

\* C6: with kerf 0, n equal cuts of length c with n * c = L, L a stock
\* length, go into exactly one stick of length L with waste 0; in the simple
\* service L is the one stock length it packs into
C6_ExactTiling ==
    /\ (pc = "packed" /\ call.kerf = 0 /\ AllEqual(call.cuts)) =>
            \A i \in 1..Len(svc.standard_stock_lengths) :
                Len(call.cuts) * call.cuts[1] = svc.standard_stock_lengths[i] =>
                    /\ result.per_stock[i] # None
                    /\ result.per_stock[i].sticks_needed = 1
                    /\ result.per_stock[i].cuts_per_stick = <<call.cuts>>
                    /\ result.per_stock[i].waste_percentage = RInt(0)
                    /\ result.best = result.per_stock[i]
    /\ (IsRun /\ call.op = "simple") =>
            \A i \in 1..Len(Purchases) :
                LET p == Purchases[i]
                IN  (/\ p.stock_length > 0
                     /\ AllEqual(p.cuts_from_this_size)
                     /\ SumSeq(p.cuts_from_this_size) = p.stock_length) =>
                        /\ p.pieces_needed = 1
                        /\ p.cuts_per_stick = <<p.cuts_from_this_size>>
                        /\ p.waste_percentage = RInt(0)

C6_Witness ==
    /\ pc = "packed"
    /\ call.kerf = 0
    /\ call.cuts = <<180, 180, 180, 180>>
    /\ result.best.sticks_needed = 1
    /\ result.best.stock_length = 720
    /\ result.best.waste_percentage = RInt(0)

----------------------------------------------------------------------------
(* C7: sheets per size group *)

PurchaseOfKey(shape_key) ==
    {Purchases[i] : i \in {j \in 1..Len(Purchases) : Purchases[j].shape_key = shape_key}}

\* C7: in the comprehensive service every sheet size group has
\* sheets_needed * pieces_per_sheet >= total_qty > (sheets_needed - 1) *
\* pieces_per_sheet, the purchase of the shape key counts those sheets, and a
\* 24 x 36 piece is put on the (48, 96) sheet with 4 pieces per sheet, so
\* that quantity 10 takes 3 sheets
C7_SheetsNeeded ==
    (IsRun /\ call.op = "comprehensive") =>
        \A m \in Range(material_groups.sheet) :
            LET size_groups == SizeGroups(m.specs, <<>>)
                results == [i \in 1..Len(size_groups) |->
                              OptimizeSingleSheetSize(size_groups[i].specs, "sheet")]
                counted == {i \in 1..Len(size_groups) : results[i] # None}
            IN  /\ \A i \in counted :
                    LET r == results[i]
                        d == r.sheet_details[1]
                        total_qty == TotalQuantity(size_groups[i].specs)
                        piece == size_groups[i].specs[1]
                    IN  /\ d.pieces_per_sheet >= 1
                        /\ r.sheets_needed * d.pieces_per_sheet >= total_qty
                        /\ total_qty > (r.sheets_needed - 1) * d.pieces_per_sheet
                        /\ (piece.width = 24 /\ piece.length = 36) =>
                                /\ <<d.width, d.length>> = <<48, 96>>
                                /\ d.pieces_per_sheet = 4
                                /\ (total_qty = 10 => r.sheets_needed = 3)
                /\ counted # {} =>
                    \E p \in PurchaseOfKey(m.shape_key) :
                        p.pieces_needed =
                            SumSeq([i \in 1..Len(size_groups) |->
                                IF i \in counted THEN results[i].sheets_needed ELSE 0])

C7_Witness ==
    /\ pc = "done"
    /\ call.op = "comprehensive"
    /\ Len(call.entries) = 1
    /\ call.entries[1].width_in = 24
    /\ call.entries[1].length_ft = 3
    /\ call.entries[1].qty = 10
    /\ Len(Purchases) = 1
    /\ Purchases[1].material_category = "sheet"
    /\ Purchases[1].pieces_needed = 3

----------------------------------------------------------------------------
(* C8: hardware pricing *)

\* percent off for the highest threshold that total_qty reaches, 0 below
\* the lowest threshold
HighestMetDiscount(total_qty) ==
    LET th == svc.optimization_params.hardware.bulk_thresholds
        met == {i \in 1..Len(th) : th[i] <= total_qty}
    IN  IF met = {} THEN 0
        ELSE svc.optimization_params.hardware.bulk_discounts[
                CHOOSE i \in met : \A j \in met : th[j] <= th[i]]

\* C8: a hardware purchase costs total_qty * base_unit_cost * (1 - discount)
\* with the single discount of the highest threshold met and waste 0;
\* 120 units at base cost 1.00 cost 108.00
C8_HardwareDiscount ==
    \A i \in 1..Len(Purchases) :
        LET p == Purchases[i]
            discount == HighestMetDiscount(p.pieces_needed)
        IN  p.material_category = "hardware" =>
                /\ p.total_cost =
                     RMul(RMul(RInt(p.pieces_needed), EstimateHardwareCost(p.shape_key)),
                          Rat(100 - discount, 100))
                /\ p.bulk_discount_applied = (discount # 0)
                /\ p.waste_percentage = RInt(0)
                /\ (p.shape_key = S_NUT /\ p.pieces_needed = 120) =>
                        p.total_cost = RInt(108)

C8_Witness ==
    /\ pc = "done"
    /\ call.op = "comprehensive"
    /\ \E i \in 1..Len(Purchases) :
        /\ Purchases[i].material_category = "hardware"
        /\ Purchases[i].shape_key = S_NUT
        /\ Purchases[i].pieces_needed = 120
        /\ Purchases[i].total_cost = RInt(108)

----------------------------------------------------------------------------
(* C9, C10: classifier rules *)

MatchesRule1(shape_key) == StartsWith(shape_key, S_PL) \/ Contains(S_DUCT, shape_key)

HasGratingCode(shape_key) == AnyContains(<<S_19W4, S_15W4, S_11W4>>, shape_key)

\* C9: every shape key that starts with PL or contains DUCT is classified
\* as sheet, whatever else it contains
C9_Rule1First ==
    (pc = "classified" /\ MatchesRule1(call.shape_key)) =>
        /\ result.category = "sheet"
        /\ result.simple_plate

\* C10: every shape key outside rule 1 that carries a grating code is
\* classified as grating and its purchase comes from the panel optimizer
C10_GratingCodes ==
    /\ (pc = "classified" /\ ~MatchesRule1(call.shape_key)
            /\ HasGratingCode(call.shape_key)) =>
            result.category = "grating"
    /\ (IsRun /\ call.op = "comprehensive") =>
            \A i \in 1..Len(Purchases) :
                (~MatchesRule1(Purchases[i].shape_key)
                    /\ HasGratingCode(Purchases[i].shape_key)) =>
                        /\ Purchases[i].material_category = "grating"
                        /\ Purchases[i].stock_length = 0

----------------------------------------------------------------------------
(* C11, C12: hardware and general rules of the classifier *)

MatchesRule3(shape_key) == Contains(S_FRP_M, shape_key)

HasHardwareWord(shape_key) == AnyContains(<<S_ASSEMBLY, S_CLIP, S_ANCHOR>>, shape_key)

\* C11: every shape key outside rules 1 to 3 that contains ASSEMBLY, CLIP or
\* ANCHOR is classified as hardware
C11_HardwareWords ==
    (pc = "classified"
        /\ ~MatchesRule1(call.shape_key)
        /\ ~HasGratingCode(call.shape_key)
        /\ ~MatchesRule3(call.shape_key)
        /\ HasHardwareWord(call.shape_key)) =>
            result.category = "hardware"

MatchesRule5(shape_key) == \E p \in {S_W, S_S, S_C, S_L, S_WT, S_MC, S_HP} : StartsWith(shape_key, p)

MatchesRule6(shape_key) == AnyContains(<<S_PIPE, S_TUBE, S_QUOTE>>, shape_key)

MatchesNoRule(shape_key) ==
    /\ ~MatchesRule1(shape_key)
    /\ ~HasGratingCode(shape_key)
    /\ ~MatchesRule3(shape_key)
    /\ ~HasHardwareWord(shape_key)
    /\ ~MatchesRule5(shape_key)
    /\ ~MatchesRule6(shape_key)

Families == {"linear", "sheet", "grating", "frp", "hardware", "structural", "general"}

ManualReviewNote == <<"Basic quantity aggregation - consider manual review">>

\* total quantity the call asks for under a normalized shape key
QuantityOfKey(shape_key) ==
    SumSeq([i \in 1..Len(call.entries) |->
        IF NormalizedKey(call.entries[i]) = shape_key /\ call.entries[i].qty > 0
        THEN call.entries[i].qty ELSE 0])

\* C12: the classifier always answers with a family; a key matching none of
\* rules 1 to 6 gets general; and every general shape key of a run yields
\* one purchase with pieces_needed = its total quantity, waste 0 and a note
\* asking for manual review
C12_GeneralFallback ==
    /\ pc = "classified" =>
        /\ result.category \in Families
        /\ MatchesNoRule(call.shape_key) => result.category = "general"
    /\ (IsRun /\ call.op = "comprehensive") =>
        \A i \in 1..Len(call.entries) :
            LET key == NormalizedKey(call.entries[i])
            IN  (key # <<>> /\ call.entries[i].qty > 0
                    /\ DetermineMaterialCategory(key) = "general") =>
                    \E j \in 1..Len(Purchases) :
                        /\ Purchases[j].shape_key = key
                        /\ Purchases[j].material_category = "general"
                        /\ Purchases[j].pieces_needed = QuantityOfKey(key)
                        /\ Purchases[j].waste_percentage = RInt(0)
                        /\ Purchases[j].optimization_notes = <<ManualReviewNote>>

----------------------------------------------------------------------------
(* C13: entries without a positive quantity, length or width *)

\* the entry would go to the sheet / plate optimizer of the service called
IsSheetEntry(op, entry) ==
    IF op = "comprehensive"
    THEN DetermineMaterialCategory(NormalizedKey(entry)) = "sheet"
    ELSE SimpleIsPlate(NormalizedKey(entry))

\* the entry would go to the stick packing of the service called
IsStickEntry(op, entry) ==
    IF op = "comprehensive"
    THEN DetermineMaterialCategory(NormalizedKey(entry)) \in {"linear", "structural"}
    ELSE ~SimpleIsPlate(NormalizedKey(entry))

IsInvalidEntry(op, entry) ==
    /\ NormalizedKey(entry) # <<>>
    /\ \/ entry.qty <= 0
       \/ /\ IsStickEntry(op, entry) \/ IsSheetEntry(op, entry)
          /\ entry.length_ft * 12 + entry.length_in <= 0
       \/ IsSheetEntry(op, entry) /\ entry.width_in <= 0

RemoveAt(s, i) == [k \in 1..(Len(s) - 1) |-> IF k < i THEN s[k] ELSE s[k + 1]]

\* C13: an entry whose quantity, length or (for sheet) width is zero or
\* negative is skipped: the purchases of the run are those of the same run
\* without that entry
C13_InvalidEntrySkipped ==
    IsRun =>
        \A i \in 1..Len(call.entries) :
            IsInvalidEntry(call.op, call.entries[i]) =>
                Purchases = PurchasesOf(call.op, RemoveAt(call.entries, i))

----------------------------------------------------------------------------
(* C14: runs that produce no purchase *)

\* C14: a run in which no group produces a purchase, so that the purchase
\* list of its NestingResult is empty, returns total cost 0, waste 0,
\* savings 0 and the summary that says no materials were there to optimize
C14_EmptyResult ==
    (IsRun /\ result.material_purchases = <<>>) =>
        /\ result.total_cost = RInt(0)
        /\ result.total_waste_percentage = RInt(0)
        /\ result.cost_savings = RInt(0)
        /\ result.optimization_summary =
                IF call.op = "comprehensive"
                THEN <<"No materials found for optimization">>
                ELSE <<"No materials to optimize">>

\* a cut of 800 inches fits no stock length of the comprehensive service
C14_Witness ==
    /\ pc = "done"
    /\ call.op = "comprehensive"
    /\ call.entries = <<Entry(S_W12X26, 1, 66, 8, 0, 0)>>
    /\ material_groups.structural # <<>>
    /\ result.material_purchases = <<>>
    /\ result.optimization_summary = <<"No materials found for optimization">>

----------------------------------------------------------------------------
(* C15: totals of a NestingResult *)

SumOfCosts(purchases) == RSumSeq([i \in 1..Len(purchases) |-> purchases[i].total_cost])

SumOfWeightedWaste(purchases) ==
    RSumSeq([i \in 1..Len(purchases) |->
        RMul(purchases[i].waste_percentage, purchases[i].total_cost)])

\* C15: in a NestingResult with purchases, total_cost is the sum of the
\* purchase costs and total_waste_percentage is the cost-weighted mean of
\* the purchase waste percentages (0 when total_cost is 0), which lies
\* between the smallest and the largest purchase waste percentage
C15_Totals ==
    (IsRun /\ Purchases # <<>>) =>
        /\ result.total_cost = SumOfCosts(Purchases)
        /\ result.total_waste_percentage =
                IF result.total_cost = RInt(0) THEN RInt(0)
                ELSE RDiv(SumOfWeightedWaste(Purchases), result.total_cost)
        /\ \E i \in 1..Len(Purchases) :
                RLe(Purchases[i].waste_percentage, result.total_waste_percentage)
        /\ \E j \in 1..Len(Purchases) :
                RLe(result.total_waste_percentage, Purchases[j].waste_percentage)

----------------------------------------------------------------------------
(* C16: utilization of a purchase *)

\* C16: every MaterialPurchase of the comprehensive service, whatever its
\* family, has utilization_percentage = 100 - waste_percentage
C16_UtilizationComplement ==
    (IsRun /\ call.op = "comprehensive") =>
        \A i \in 1..Len(Purchases) :
            Purchases[i].utilization_percentage =
                RSub(RInt(100), Purchases[i].waste_percentage)

----------------------------------------------------------------------------
(* C17: grating and FRP panels *)

PanelUnitCost(category) == IF category = "grating" THEN 150 ELSE 300

PanelWasteTarget(category) == IF category = "grating" THEN 8 ELSE 10

\* C17: every grating or FRP shape key of a comprehensive run gets one
\* purchase with pieces_needed = its total quantity, total_cost = quantity x
\* unit cost of the category (150 grating, 300 FRP), waste_percentage = the
\* fixed target of the category (8 grating, 10 FRP) and waste_cost =
\* total_cost x waste_percentage / 100
C17_PanelPurchase ==
    (IsRun /\ call.op = "comprehensive") =>
        \A category \in {"grating", "frp"} :
            /\ \A m \in Range(material_groups[category]) :
                \E i \in 1..Len(Purchases) :
                    /\ Purchases[i].shape_key = m.shape_key
                    /\ Purchases[i].material_category = category
            /\ \A i \in 1..Len(Purchases) :
                Purchases[i].material_category = category =>
                    LET p == Purchases[i]
                        qty == QuantityOfKey(p.shape_key)
                    IN  /\ p.pieces_needed = qty
                        /\ p.total_cost = RInt(qty * PanelUnitCost(category))
                        /\ p.waste_percentage = RInt(PanelWasteTarget(category))
                        /\ p.waste_cost =
                                RDiv(RMul(p.total_cost, p.waste_percentage), RInt(100))

\* 7 grating panels and 7 FRP panels in one run
C17_Witness ==
    /\ pc = "done"
    /\ call.op = "comprehensive"
    /\ \E i, j \in 1..Len(Purchases) :
        /\ Purchases[i].material_category = "grating"
        /\ Purchases[i].shape_key = S_GRATE1
        /\ Purchases[i].pieces_needed = 7
        /\ Purchases[i].total_cost = RInt(1050)
        /\ Purchases[i].waste_cost = RInt(84)
        /\ Purchases[j].material_category = "frp"
        /\ Purchases[j].pieces_needed = 7
        /\ Purchases[j].total_cost = RInt(2100)
        /\ Purchases[j].waste_cost = RInt(210)

----------------------------------------------------------------------------
(* C18: concurrent calls on the shared instance *)

ResultAlone(op, entries) ==
    IF op = "comprehensive"
    THEN ComprehensiveResult(AllPurchases(CategorizeAll(entries, EmptyGroups)))
    ELSE SimpleRun(entries)

\* C18: no step of a call changes the attributes of the service instance,
\* and under every interleaving of two calls on the shared instance each call
\* returns the NestingResult it returns when it runs alone
C18_ConcurrentCalls ==
    /\ svc = NestingServiceInit
    /\ simple_svc = SimpleNestingServiceInit
    /\ pc = "concurrent" =>
        \A t \in Threads :
            threads[t].pos = "returned" =>
                threads[t].result = ResultAlone(call.op, threads[t].entries)

\* call 1 has returned its purchases while call 2, which has different
\* entries, has processed one of its two entries
C18_Witness ==
    /\ pc = "concurrent"
    /\ threads[1].pos = "returned"
    /\ threads[1].result.material_purchases # <<>>
    /\ threads[2].pos = "categorize"
    /\ Len(threads[2].entries) = 2
    /\ threads[2].k = 2
    /\ threads[2].entries # threads[1].entries

----------------------------------------------------------------------------
(* C19: recommendations of the project endpoint *)

IsProjectResponse == pc = "responded" /\ call.op = "api_project" /\ result.status_code = 200

\* the NestingResult the endpoint got from the service
ServiceResultOfCall == SimpleRun(EntryDicts(ValidRows(call.rows)))

RecommendationsOfKind(kind) == SelectSeq(result.recommendations, LAMBDA r : r.kind = kind)

PurchasesOfShape(purchases, shape) == {i \in 1..Len(purchases) : purchases[i].shape_key = shape}

\* C19: the recommendations hold one high-waste recommendation for each
\* purchase with waste_percentage > 40 and for no other, and one
\* consolidation recommendation for each shape key that occurs in more than
\* 3 purchases and for no other
C19_Recommendations ==
    IsProjectResponse =>
        LET purchases == ServiceResultOfCall.material_purchases
            wasteful == SelectSeq(purchases, LAMBDA p : RLt(RInt(40), p.waste_percentage))
            high_waste == RecommendationsOfKind("high_waste")
            bulk == RecommendationsOfKind("bulk")
        IN  /\ Len(high_waste) = Len(wasteful)
            /\ \A i \in 1..Len(wasteful) :
                high_waste[i].size_description = wasteful[i].size_description
            /\ \A i \in 1..Len(purchases) :
                Cardinality(PurchasesOfShape(purchases, purchases[i].shape_key)) > 3
                    => \E k \in 1..Len(bulk) : bulk[k].shape = purchases[i].shape_key
            /\ \A k \in 1..Len(bulk) :
                /\ Cardinality(PurchasesOfShape(purchases, bulk[k].shape)) > 3
                /\ bulk[k].count = Cardinality(PurchasesOfShape(purchases, bulk[k].shape))
                /\ \A j \in 1..Len(bulk) : bulk[j].shape = bulk[k].shape => j = k

\* five plate sizes under PL1/4, two of them without waste, and sticks with
\* 47.9% waste
C19_Witness ==
    /\ IsProjectResponse
    /\ Len(ServiceResultOfCall.material_purchases) = 6
    /\ result.recommendations =
        <<[kind |-> "bulk", shape |-> S_PL14, count |-> 5],
          [kind |-> "high_waste", size_description |-> <<"sticks", RInt(60)>>,
           waste_tenths |-> 479],
          [kind |-> "high_waste", size_description |-> <<"sheets", 48, 96>>,
           waste_tenths |-> 812],
          [kind |-> "high_waste", size_description |-> <<"sheets", 48, 120>>,
           waste_tenths |-> 479],
          [kind |-> "high_waste", size_description |-> <<"sheets", 48, 96>>,
           waste_tenths |-> 969]>>

----------------------------------------------------------------------------
(* C20: single-entry endpoint *)

\* C20: for an entry with a non-empty shape key, qty > 0 and length_ft > 0
\* for which the service produces a purchase, optimize_single_entry answers
\* 200 with a response built from the first purchase: its cost, its waste
\* clamped to [0, 100] and material_utilization = 100 - waste clamped to
\* [0, 100]
C20_SingleEntryResponse ==
    (/\ pc = "responded"
     /\ call.op = "api_entry"
     /\ call.entry # NoEntry
     /\ call.entry.shape_key # <<>>
     /\ call.entry.qty > 0
     /\ call.entry.length_ft > 0
     /\ SimpleRun(<<call.entry>>).material_purchases # <<>>) =>
        LET purchase == SimpleRun(<<call.entry>>).material_purchases[1]
        IN  /\ result.status_code = 200
            /\ result.optimized_cost = purchase.total_cost
            /\ result.waste_percentage = Clamp0To100(purchase.waste_percentage)
            /\ result.material_utilization =
                    Clamp0To100(RSub(RInt(100), purchase.waste_percentage))

----------------------------------------------------------------------------
(* C21: the stock length chosen by _optimize_linear_cuts *)

\* the candidates _bin_pack_linear did not reject
FeasibleCandidates == {r \in Range(result.per_stock) : r # None}

\* C21: the result chosen by _optimize_linear_cuts is one of the feasible
\* candidates, no feasible candidate has a higher utilization, and every
\* feasible candidate of the same utilization needs at least as many sticks
C21_BestStockLength ==
    (pc = "packed" /\ result.best # None) =>
        /\ result.best \in FeasibleCandidates
        /\ \A r \in FeasibleCandidates :
            /\ ~RLt(result.best.efficiency, r.efficiency)
            /\ r.efficiency = result.best.efficiency =>
                    result.best.sticks_needed <= r.sticks_needed

\* two 120" cuts with kerf 0: one 240" stick and two 120" sticks are both
\* used to 100%, and the 240" stick is chosen
C21_Witness ==
    /\ pc = "packed"
    /\ call.cuts = <<120, 120>>
    /\ call.kerf = 0
    /\ result.best.stock_length = 240
    /\ result.best.sticks_needed = 1
    /\ result.per_stock[6] # None
    /\ result.per_stock[6].efficiency = result.best.efficiency
    /\ result.per_stock[6].sticks_needed = 2

----------------------------------------------------------------------------
(* C22: feasibility of a candidate stock length *)

\* some single cut is longer than the stock length
CutExceeds(cuts, stock_length) == \E k \in 1..Len(cuts) : cuts[k] > stock_length

\* C22: _bin_pack_linear rejects a stock length exactly when some single cut
\* is longer than it, and _optimize_linear_cuts finds no result only if some
\* cut is longer than every standard stock length
C22_InfeasibleCandidate ==
    pc = "packed" =>
        /\ \A i \in 1..Len(svc.standard_stock_lengths) :
            (result.per_stock[i] = None)
                <=> CutExceeds(call.cuts, svc.standard_stock_lengths[i])
        /\ result.best = None =>
            \A i \in 1..Len(svc.standard_stock_lengths) :
                CutExceeds(call.cuts, svc.standard_stock_lengths[i])

----------------------------------------------------------------------------
(* C23: first-fit in non-increasing order *)

NonIncreasing(s) == \A i \in 1..(Len(s) - 1) : s[i] >= s[i + 1]

\* what is left of a stick, in eighths of an inch, when a cut of length c
\* comes up: cuts are taken longest first and equal cuts fill the sticks in
\* index order, so an earlier stick then holds its cuts of length >= c
RemainingBefore(stick, c, stock_length, kerf) ==
    stock_length * 8
        - SumSeq([p \in 1..Len(stick) |->
                    IF stick[p] >= c THEN stick[p] * 8 + kerf ELSE 0])

\* the packing is the first-fit packing of its cuts taken longest first
IsFirstFitDecreasing(cuts_per_stick, stock_length, kerf) ==
    /\ \A j \in 1..Len(cuts_per_stick) : NonIncreasing(cuts_per_stick[j])
    /\ NonIncreasing([j \in 1..Len(cuts_per_stick) |-> cuts_per_stick[j][1]])
    /\ \A j \in 1..Len(cuts_per_stick) :
        \A p \in 1..Len(cuts_per_stick[j]) :
            \A i \in 1..(j - 1) :
                RemainingBefore(cuts_per_stick[i], cuts_per_stick[j][p],
                                stock_length, kerf)
                    < cuts_per_stick[j][p] * 8 + kerf

\* C23: in every packing _bin_pack_linear returns, the cuts were taken in
\* non-increasing order, every cut lies on the lowest-indexed stick that had
\* room for cut + kerf when it came up, and so a stick was opened only when
\* no open stick had that room
C23_FirstFit ==
    pc = "packed" =>
        \A r \in FeasibleCandidates :
            IsFirstFitDecreasing(r.cuts_per_stick, r.stock_length, call.kerf)

\* five 150" cuts and two 120" cuts on 720" sticks with kerf 0: the first
\* 120" cut fills the first stick, the second goes on the second stick
C23_Witness ==
    /\ pc = "packed"
    /\ SortedDesc(call.cuts) = <<150, 150, 150, 150, 150, 120, 120>>
    /\ call.kerf = 0
    /\ result.per_stock[1] # None
    /\ result.per_stock[1].cuts_per_stick =
            <<<<150, 150, 150, 150, 120>>, <<150, 120>>>>

----------------------------------------------------------------------------
(* C24: the packing holds the requested cuts, and no stick is over-filled *)

Count(x, s) == Cardinality({i \in 1..Len(s) : s[i] = x})

SameMultiset(s, t) ==
    /\ Len(s) = Len(t)
    /\ \A x \in Range(s) \cup Range(t) : Count(x, s) = Count(x, t)

\* the cuts the entries of the call ask for under one shape key: qty copies
\* of the length of each entry
RECURSIVE RequestedCuts(_, _)
RequestedCuts(entries, shape_key) ==
    IF entries = <<>> THEN <<>>
    ELSE (IF NormalizedKey(Head(entries)) = shape_key
          THEN Repeat(Head(entries).length_ft * 12 + Head(entries).length_in,
                      Head(entries).qty)
          ELSE <<>>)
         \o RequestedCuts(Tail(entries), shape_key)

\* every stick holds cuts whose lengths plus one kerf each sum to at most the
\* stock length (in eighths of an inch)
SticksWithinStock(cuts_per_stick, stock_length, kerf) ==
    \A j \in 1..Len(cuts_per_stick) :
        SumSeq([p \in 1..Len(cuts_per_stick[j]) |-> cuts_per_stick[j][p] * 8 + kerf])
            <= stock_length * 8

\* C24: every packing _bin_pack_linear returns holds exactly the cuts it was
\* given, every linear or structural purchase of a run holds qty copies of
\* the length of each entry of its shape key, and on every stick the cuts
\* plus one kerf each sum to at most the stock length
C24_CutsPreserved ==
    /\ pc = "packed" =>
        \A r \in FeasibleCandidates :
            /\ SameMultiset(Flatten(r.cuts_per_stick), call.cuts)
            /\ SticksWithinStock(r.cuts_per_stick, r.stock_length, call.kerf)
    /\ (IsRun /\ call.op = "comprehensive") =>
        \A i \in 1..Len(Purchases) :
            Purchases[i].material_category \in {"linear", "structural"} =>
                /\ SameMultiset(Flatten(Purchases[i].cuts_per_stick),
                                RequestedCuts(call.entries, Purchases[i].shape_key))
                /\ SticksWithinStock(Purchases[i].cuts_per_stick,
                                     Purchases[i].stock_length, KerfOf(Purchases[i]))

\* two entries of one shape key, five cuts of 150" and four of 180", are
\* bought as sticks that hold all nine cuts
C24_Witness ==
    /\ IsRun
    /\ call.op = "comprehensive"
    /\ call.entries = <<Entry(S_W12X26, 5, 12, 6, 0, 0), Entry(S_w12x26_raw, 4, 15, 0, 0, 0)>>
    /\ Len(Purchases) = 1
    /\ Purchases[1].material_category = "structural"
    /\ Purchases[1].pieces_needed >= 2
    /\ Len(Flatten(Purchases[1].cuts_per_stick)) = 9

----------------------------------------------------------------------------
(* C25: pieces per sheet *)

GridCount(sheet_width, sheet_length, piece_width, piece_length) ==
    PyFloorDiv(sheet_width, piece_width) * PyFloorDiv(sheet_length, piece_length)

Max(a, b) == IF a >= b THEN a ELSE b

\* C25: pieces_per_sheet of a size group is the larger of the grid count of
\* the piece as given and the grid count of the piece turned by 90 degrees,
\* on the chosen sheet
C25_LargerOrientation ==
    (pc = "nested" /\ result.sheet_result # None) =>
        LET d == result.sheet_result.sheet_details[1]
        IN  d.pieces_per_sheet =
                Max(GridCount(d.width, d.length, call.width, call.length),
                    GridCount(d.width, d.length, call.length, call.width))

----------------------------------------------------------------------------
(* C26: the sheet chosen for a piece size *)

\* the piece fits the sheet as given or turned by 90 degrees
PieceFits(width, length, sheet) ==
    \/ (width <= sheet[1] /\ length <= sheet[2])
    \/ (width <= sheet[2] /\ length <= sheet[1])

FittingSheets(sizes, width, length) ==
    {sheet \in Range(sizes) : PieceFits(width, length, sheet)}

\* the sheet is a fitting catalog sheet of minimal area, hence of minimal
\* leftover area for the piece
IsMinimalFit(sizes, width, length, sheet) ==
    /\ sheet \in FittingSheets(sizes, width, length)
    /\ \A other \in FittingSheets(sizes, width, length) :
        sheet[1] * sheet[2] - width * length <= other[1] * other[2] - width * length

\* C26: for a piece of positive width and length, the sheet either service
\* chooses is a catalog sheet the piece fits, as given or rotated, with the
\* least leftover area among the catalog sheets it fits; when it fits none,
\* the comprehensive service returns no sheet and no result for the group,
\* and the simple service does not name a sheet either
C26_BestSheetFit ==
    (pc = "nested" /\ call.width > 0 /\ call.length > 0) =>
        /\ IF FittingSheets(svc.standard_plate_sizes, call.width, call.length) = {}
           THEN result.best_fit = None /\ result.sheet_result = None
           ELSE IsMinimalFit(svc.standard_plate_sizes, call.width, call.length,
                             result.best_fit)
        /\ IsMinimalFit(simple_svc.standard_plate_sizes, call.width, call.length,
                        result.simple_best_fit)

----------------------------------------------------------------------------
(* C27: the size groups of one sheet shape key *)

PositiveSizes(specs) == \A i \in 1..Len(specs) : specs[i].width > 0 /\ specs[i].length > 0

IndicesOfKey(shape_key) == {j \in 1..Len(Purchases) : Purchases[j].shape_key = shape_key}

\* the purchase is the merge of the size group results: summed cost, summed
\* sheets and cost-weighted waste
IsMergeOf(p, results) ==
    /\ p.total_cost = RSumSeq([i \in 1..Len(results) |-> results[i].cost])
    /\ p.pieces_needed = SumSeq([i \in 1..Len(results) |-> results[i].sheets_needed])
    /\ p.waste_percentage =
            RDiv(RSumSeq([i \in 1..Len(results) |->
                            RMul(results[i].waste_percentage, results[i].cost)]),
                 RSumSeq([i \in 1..Len(results) |-> results[i].cost]))

\* C27: the size groups of one sheet shape key (pieces of positive width and
\* length) end in a single purchase of that shape key, in either service,
\* and in the comprehensive service its total_cost is the sum of the group
\* costs, its pieces_needed the sum of the group sheets_needed and its
\* waste_percentage the sum of waste% x cost over the sum of costs
C27_SizeGroupsMerged ==
    /\ (IsRun /\ call.op = "comprehensive") =>
        \A m \in Range(material_groups.sheet) :
            LET results == SheetNestingResults(SizeGroups(m.specs, <<>>), "sheet")
            IN  (PositiveSizes(m.specs) /\ results # <<>>) =>
                    /\ Cardinality(IndicesOfKey(m.shape_key)) = 1
                    /\ \A j \in IndicesOfKey(m.shape_key) :
                            IsMergeOf(Purchases[j], results)
    /\ (IsRun /\ call.op = "simple") =>
        \A i \in 1..Len(call.entries) :
            (/\ SimpleIsPlate(NormalizedKey(call.entries[i]))
             /\ \A k \in 1..Len(call.entries) :
                    SimpleIsPlate(NormalizedKey(call.entries[k])) =>
                        /\ call.entries[k].qty > 0
                        /\ call.entries[k].width_in > 0
                        /\ call.entries[k].length_ft * 12 + call.entries[k].length_in > 0)
                => Cardinality(IndicesOfKey(NormalizedKey(call.entries[i]))) = 1

----------------------------------------------------------------------------
(* C28: cost and waste cost of a linear or structural purchase *)

\* C28: every linear or structural purchase costs pieces_needed times the
\* estimated cost of one stick of its stock length, its waste_cost is
\* waste_percentage / 100 of its total_cost, and 0 <= waste_cost <= total_cost
C28_LinearCost ==
    (IsRun /\ call.op = "comprehensive") =>
        \A i \in 1..Len(Purchases) :
            Purchases[i].material_category \in {"linear", "structural"} =>
                LET p == Purchases[i]
                IN  /\ p.total_cost =
                          RMul(RInt(p.pieces_needed),
                               EstimateLinearCost(p.shape_key, p.stock_length))
                    /\ p.waste_cost =
                          RMul(RDiv(p.waste_percentage, RInt(100)), p.total_cost)
                    /\ RLe(RInt(0), p.waste_cost)
                    /\ RLe(p.waste_cost, p.total_cost)

\* five 150" cuts of W12X26 with the structural kerf of 1/4": two 40' sticks
\* at 600 each, 208.75" of 960" wasted, waste cost 260.9375
C28_Witness ==
    /\ IsRun
    /\ call.op = "comprehensive"
    /\ call.entries = <<Entry(S_W12X26, 5, 12, 6, 0, 0)>>
    /\ Len(Purchases) = 1
    /\ Purchases[1].material_category = "structural"
    /\ Purchases[1].stock_length = 480
    /\ Purchases[1].pieces_needed = 2
    /\ Purchases[1].total_cost = RInt(1200)
    /\ Purchases[1].waste_cost = Rat(4175, 16)

----------------------------------------------------------------------------
(* C29: a sheet that fits holds at least one piece *)

\* C29: when _find_best_sheet_fit returns a sheet for a piece of positive
\* width and length, _optimize_single_sheet_size does not return None:
\* pieces_per_sheet after the rotated fallback is >= 1 and, the quantity
\* being >= 1, sheets_needed is >= 1
C29_FitHoldsOnePiece ==
    (/\ pc = "nested"
     /\ call.width > 0
     /\ call.length > 0
     /\ call.quantity >= 1
     /\ result.best_fit # None) =>
        /\ PiecesPerSheet(result.best_fit[1], result.best_fit[2],
                          call.width, call.length) >= 1
        /\ result.sheet_result # None
        /\ result.sheet_result.sheet_details[1].pieces_per_sheet >= 1
        /\ result.sheet_result.sheets_needed >= 1

\* a piece 100" wide and 30" long fits the (48, 120) sheet only when turned:
\* the grid as given holds 0 pieces, the rotated grid 1, so 10 pieces take
\* 10 sheets
C29_Witness ==
    /\ pc = "nested"
    /\ call.width = 100
    /\ call.length = 30
    /\ call.quantity = 10
    /\ result.best_fit = <<48, 120>>
    /\ GridCount(48, 120, 100, 30) = 0
    /\ result.sheet_result.sheet_details[1].pieces_per_sheet = 1
    /\ result.sheet_result.sheets_needed = 10

----------------------------------------------------------------------------
(* C30: one purchase per shape key in the comprehensive result *)

\* the groups of every category, one after the other
AllGroups == Flatten([c \in 1..Len(CategoryOrder) |-> material_groups[CategoryOrder[c]]])

\* C30: in a comprehensive run every normalized shape key has one group, in
\* one category, holding all its entries of positive quantity; every purchase
\* carries the normalized shape key of an entry, and no two purchases carry
\* the same shape key
C30_OnePurchasePerKey ==
    (IsRun /\ call.op = "comprehensive") =>
        /\ \A i, j \in 1..Len(AllGroups) :
            AllGroups[i].shape_key = AllGroups[j].shape_key => i = j
        /\ \A i \in 1..Len(AllGroups) :
            Len(AllGroups[i].specs) =
                Cardinality({k \in 1..Len(call.entries) :
                                /\ NormalizedKey(call.entries[k]) = AllGroups[i].shape_key
                                /\ call.entries[k].qty > 0})
        /\ \A i \in 1..Len(Purchases) :
            \E k \in 1..Len(call.entries) :
                Purchases[i].shape_key = NormalizedKey(call.entries[k])
        /\ \A i, j \in 1..Len(Purchases) :
            Purchases[i].shape_key = Purchases[j].shape_key => i = j

\* 'W12X26' and ' w12x26' are one shape key: one group of two specs and one
\* purchase
C30_Witness ==
    /\ IsRun
    /\ call.op = "comprehensive"
    /\ call.entries = <<Entry(S_W12X26, 4, 15, 0, 0, 0), Entry(S_w12x26_raw, 2, 10, 0, 0, 0)>>
    /\ Len(AllGroups) = 1
    /\ Len(AllGroups[1].specs) = 2
    /\ Len(Purchases) = 1
    /\ Purchases[1].shape_key = S_W12X26

====
